---- MODULE Spec2Model ----
(***************************************************************************)
(* A model of composer_lsp: the update resolver of packagist.rs            *)
(* (check_for_package_update over the semver crate's Version and           *)
(* VersionReq), and the save pipeline of main.rs (Backend::on_save).       *)
(*                                                                         *)
(* A Rust String is modelled as a sequence of one-character strings, so    *)
(* that parsing, replace() and parse::<i32>() are computed as the code     *)
(* computes them.                                                          *)
(***************************************************************************)
EXTENDS Integers, Sequences, FiniteSets, TLC

(***************************************************************************)
(* Characters and strings                                                  *)
(***************************************************************************)

\* The decimal digits in ASCII order.
Digits == <<"0", "1", "2", "3", "4", "5", "6", "7", "8", "9">>

\* The letters of the model's alphabet.
Letters == {"X", "a", "b", "d", "e", "m", "v", "x"}

\* The alphabet in ASCII order: the byte order str's Ord compares by.
AsciiOrder == <<"-", "0", "1", "2", "3", "4", "5", "6", "7", "8", "9", "X", "a", "b", "d", "e", "m", "v", "x">>

IsDigit(c) == \E i \in 1..Len(Digits) : Digits[i] = c

DigitVal(c) == (CHOOSE i \in 1..Len(Digits) : Digits[i] = c) - 1

IsIdentChar(c) == c \in Letters \/ c = "-"

Rank(c) == CHOOSE i \in 1..Len(AsciiOrder) : AsciiOrder[i] = c

\* s[from..] : the rest of a string.
Drop(s, n) == SubSeq(s, n + 1, Len(s))

Take(s, n) == SubSeq(s, 1, n)

StartsWith(s, p) == Len(s) >= Len(p) /\ Take(s, Len(p)) = p

\* str::contains
Contains(s, p) == \E i \in 0..(Len(s) - Len(p)) : SubSeq(s, i + 1, i + Len(p)) = p

\* str::replace(c, ""): every occurrence of the character removed.
Remove(s, c) == SelectSeq(s, LAMBDA x : x # c)

\* str::trim_start_matches(' ')
RECURSIVE TrimStart(_)
TrimStart(s) ==
    IF Len(s) > 0 /\ s[1] = " " THEN TrimStart(Tail(s)) ELSE s

\* The length of the longest prefix of s made of digits.
RECURSIVE DigitPrefixLen(_)
DigitPrefixLen(s) ==
    IF Len(s) > 0 /\ IsDigit(s[1]) THEN 1 + DigitPrefixLen(Tail(s)) ELSE 0

\* The value of a string of digits (at most nine of them).
RECURSIVE DigitsValue(_)
DigitsValue(s) ==
    IF Len(s) = 0 THEN 0
    ELSE DigitsValue(Take(s, Len(s) - 1)) * 10 + DigitVal(s[Len(s)])

(***************************************************************************)
(* str::parse::<i32>()                                                     *)
(***************************************************************************)

I32Max == 2147483647

I32MaxDiv10 == I32Max \div 10

\* Accumulates the digits of s onto acc with checked_mul / checked_add
\* (sign = 1) or checked_sub (sign = -1); an invalid digit or an overflow
\* is an Err.
RECURSIVE I32Accumulate(_, _, _)
I32Accumulate(s, acc, sign) ==
    IF Len(s) = 0 THEN [ok |-> TRUE, val |-> acc]
    ELSE IF ~IsDigit(s[1]) THEN [ok |-> FALSE, val |-> 0]
    ELSE LET d == DigitVal(s[1])
             fits == IF sign = 1
                     THEN acc < I32MaxDiv10 \/ (acc = I32MaxDiv10 /\ d <= 7)
                     ELSE acc > -I32MaxDiv10 \/ (acc = -I32MaxDiv10 /\ d <= 8)
         IN  IF ~fits THEN [ok |-> FALSE, val |-> 0]
             ELSE I32Accumulate(Tail(s), acc * 10 + sign * d, sign)

\* i32::from_str: an optional sign, then one or more digits.
ParseI32(s) ==
    IF Len(s) = 0 THEN [ok |-> FALSE, val |-> 0]
    ELSE IF s[1] = "+" \/ s[1] = "-"
         THEN IF Len(s) = 1 THEN [ok |-> FALSE, val |-> 0]
              ELSE I32Accumulate(Tail(s), 0, IF s[1] = "-" THEN -1 ELSE 1)
         ELSE I32Accumulate(s, 0, 1)

(***************************************************************************)
(* semver::Version::parse and semver::VersionReq::parse, as called at      *)
(* packagist.rs 131 and 138                                                *)
(***************************************************************************)

Err == [ok |-> FALSE]

Some(v) == [some |-> TRUE, val |-> v]

NoneOpt == [some |-> FALSE, val |-> 0]

\* A run of digits without a leading zero: (value, rest), or an error.
NumericIdentifier(text) ==
    LET n == DigitPrefixLen(text)
    IN  IF n = 0 THEN Err
        ELSE IF n > 1 /\ text[1] = "0" THEN Err
        ELSE [ok |-> TRUE, val |-> DigitsValue(Take(text, n)), rest |-> Drop(text, n)]

\* A pre-release or build identifier: dot-separated segments of letters,
\* digits and hyphens; no segment is empty and, in a pre-release, no numeric
\* segment has a leading zero.  acc and seg are the lengths scanned so far.
RECURSIVE IdentScan(_, _, _, _, _)
IdentScan(input, acc, seg, nondigit, isPre) ==
    LET pos == acc + seg + 1
        inside == pos <= Len(input)
    IN  IF inside /\ IsIdentChar(input[pos])
        THEN IdentScan(input, acc, seg + 1, TRUE, isPre)
        ELSE IF inside /\ IsDigit(input[pos])
        THEN IdentScan(input, acc, seg + 1, nondigit, isPre)
        ELSE LET isDot == inside /\ input[pos] = "."
             IN  IF seg = 0
                 THEN IF acc = 0 /\ ~isDot
                      THEN [ok |-> TRUE, ident |-> <<>>, rest |-> input]
                      ELSE Err
                 ELSE IF isPre /\ seg > 1 /\ ~nondigit /\ input[acc + 1] = "0"
                 THEN Err
                 ELSE IF isDot
                 THEN IdentScan(input, acc + seg + 1, 0, FALSE, isPre)
                 ELSE [ok |-> TRUE, ident |-> Take(input, acc + seg),
                       rest |-> Drop(input, acc + seg)]

\* The optional "-pre" or "+build" part that starts with the character mark.
Suffix(text, mark, isPre) ==
    IF StartsWith(text, <<mark>>)
    THEN LET id == IdentScan(Tail(text), 0, 0, FALSE, isPre)
         IN  IF ~id.ok THEN Err
             ELSE IF id.ident = <<>> THEN Err
             ELSE id
    ELSE [ok |-> TRUE, ident |-> <<>>, rest |-> text]

\* Version::from_str: MAJOR.MINOR.PATCH[-pre][+build] and nothing else.
\* Each step takes what the steps before it have parsed.
VersionEnd(major, minor, patch, pre, build) ==
    IF ~build.ok THEN Err
    ELSE IF Len(build.rest) > 0 THEN Err
    ELSE [ok |-> TRUE, major |-> major, minor |-> minor, patch |-> patch, pre |-> pre]

VersionBuild(major, minor, patch, pre) ==
    IF ~pre.ok THEN Err
    ELSE VersionEnd(major, minor, patch, pre.ident, Suffix(pre.rest, "+", FALSE))

VersionPre(major, minor, pa) ==
    IF ~pa.ok THEN Err
    ELSE VersionBuild(major, minor, pa.val, Suffix(pa.rest, "-", TRUE))

VersionPatch(major, mi) ==
    IF ~mi.ok THEN Err
    ELSE IF ~StartsWith(mi.rest, <<".">>) THEN Err
    ELSE VersionPre(major, mi.val, NumericIdentifier(Tail(mi.rest)))

VersionMinor(ma) ==
    IF ~ma.ok THEN Err
    ELSE IF ~StartsWith(ma.rest, <<".">>) THEN Err
    ELSE VersionPatch(ma.val, NumericIdentifier(Tail(ma.rest)))

VersionParse(text) ==
    IF Len(text) = 0 THEN Err
    ELSE VersionMinor(NumericIdentifier(text))

\* The operator a comparator starts with; none means caret.
Op(input) ==
    IF StartsWith(input, <<"=">>) THEN [op |-> "Exact", rest |-> Drop(input, 1)]
    ELSE IF StartsWith(input, <<">", "=">>) THEN [op |-> "GreaterEq", rest |-> Drop(input, 2)]
    ELSE IF StartsWith(input, <<">">>) THEN [op |-> "Greater", rest |-> Drop(input, 1)]
    ELSE IF StartsWith(input, <<"<", "=">>) THEN [op |-> "LessEq", rest |-> Drop(input, 2)]
    ELSE IF StartsWith(input, <<"<">>) THEN [op |-> "Less", rest |-> Drop(input, 1)]
    ELSE IF StartsWith(input, <<"~">>) THEN [op |-> "Tilde", rest |-> Drop(input, 1)]
    ELSE IF StartsWith(input, <<"^">>) THEN [op |-> "Caret", rest |-> Drop(input, 1)]
    ELSE [op |-> "Caret", rest |-> input]

IsWildcard(text) ==
    StartsWith(text, <<"*">>) \/ StartsWith(text, <<"x">>) \/ StartsWith(text, <<"X">>)

\* The minor or patch part of a comparator: absent, a wildcard or a number.
\* after is TRUE when an earlier part was a wildcard.
Part(text, after) ==
    IF StartsWith(text, <<".">>)
    THEN IF IsWildcard(Tail(text))
         THEN [ok |-> TRUE, v |-> NoneOpt, wild |-> TRUE, rest |-> Drop(text, 2)]
         ELSE IF after THEN Err
         ELSE LET n == NumericIdentifier(Tail(text))
              IN  IF ~n.ok THEN Err
                  ELSE [ok |-> TRUE, v |-> Some(n.val), wild |-> FALSE, rest |-> n.rest]
    ELSE [ok |-> TRUE, v |-> NoneOpt, wild |-> FALSE, rest |-> text]

\* The optional "-pre" or "+build" of a comparator: read only after a patch.
SuffixAfterPatch(has_patch, text, mark, isPre) ==
    IF has_patch THEN Suffix(text, mark, isPre)
    ELSE [ok |-> TRUE, ident |-> <<>>, rest |-> text]

\* One comparator: [op] MAJOR[.MINOR[.PATCH[-pre][+build]]], with trailing
\* spaces skipped.  Each step takes what the steps before it have parsed.
ComparatorEnd(op, major, minor, patch, pre, build) ==
    IF ~build.ok THEN Err
    ELSE [ok |-> TRUE,
          cmp |-> [op |-> op, major |-> major, minor |-> minor, patch |-> patch, pre |-> pre],
          rest |-> TrimStart(build.rest)]

ComparatorBuild(op, major, minor, patch, pre) ==
    IF ~pre.ok THEN Err
    ELSE ComparatorEnd(op, major, minor, patch, pre.ident,
                       SuffixAfterPatch(patch.some, pre.rest, "+", FALSE))

ComparatorPre(op, defaultOp, major, mi, pa) ==
    IF ~pa.ok THEN Err
    ELSE ComparatorBuild(IF defaultOp /\ (mi.wild \/ pa.wild) THEN "Wildcard" ELSE op,
                         major, mi.v, pa.v,
                         SuffixAfterPatch(pa.v.some, pa.rest, "-", TRUE))

ComparatorPatch(op, defaultOp, major, mi) ==
    IF ~mi.ok THEN Err
    ELSE ComparatorPre(op, defaultOp, major, mi, Part(mi.rest, mi.wild))

ComparatorMinor(op, defaultOp, ma) ==
    IF ~ma.ok THEN Err
    ELSE ComparatorPatch(op, defaultOp, ma.val, Part(ma.rest, FALSE))

ComparatorMajor(o, input) ==
    ComparatorMinor(o.op, Len(o.rest) = Len(input), NumericIdentifier(TrimStart(o.rest)))

ComparatorParse(input) == ComparatorMajor(Op(input), input)

\* Comma-separated comparators.  (The crate refuses a requirement of more
\* than 32 comparators; the constraints of this model hold at most two.)
RECURSIVE VersionReqList(_)
VersionReqMore(c, more) ==
    IF ~more.ok THEN Err
    ELSE [ok |-> TRUE, comparators |-> <<c.cmp>> \o more.comparators]

VersionReqRest(c) ==
    IF ~c.ok THEN Err
    ELSE IF Len(c.rest) = 0 THEN [ok |-> TRUE, comparators |-> <<c.cmp>>]
    ELSE IF ~StartsWith(c.rest, <<",">>) THEN Err
    ELSE VersionReqMore(c, VersionReqList(TrimStart(Tail(c.rest))))

VersionReqList(input) == VersionReqRest(ComparatorParse(input))

\* VersionReq::from_str: a lone wildcard is the requirement that has no
\* comparator.
VersionReqParse(input) ==
    LET text == TrimStart(input)
    IN  IF IsWildcard(text)
        THEN IF Len(TrimStart(Tail(text))) = 0
             THEN [ok |-> TRUE, comparators |-> <<>>]
             ELSE Err
        ELSE VersionReqList(text)

(***************************************************************************)
(* semver's precedence order and VersionReq::matches, as called at         *)
(* packagist.rs 142                                                        *)
(***************************************************************************)

\* The dot-separated segments of a pre-release.
RECURSIVE Split(_)
Split(s) ==
    LET n == CHOOSE k \in 0..Len(s) :
                 /\ \A i \in 1..k : s[i] # "."
                 /\ (k = Len(s) \/ s[k + 1] = ".")
    IN  IF n = Len(s) THEN <<s>>
        ELSE <<Take(s, n)>> \o Split(Drop(s, n + 1))

AllDigits(s) == \A i \in 1..Len(s) : IsDigit(s[i])

\* str's Ord: byte-wise lexicographic; -1, 0 or 1.
RECURSIVE StrCmp(_, _)
StrCmp(a, b) ==
    IF Len(a) = 0 /\ Len(b) = 0 THEN 0
    ELSE IF Len(a) = 0 THEN -1
    ELSE IF Len(b) = 0 THEN 1
    ELSE IF Rank(a[1]) < Rank(b[1]) THEN -1
    ELSE IF Rank(a[1]) > Rank(b[1]) THEN 1
    ELSE StrCmp(Tail(a), Tail(b))

\* Two segments: numeric ones by value, a numeric one below any other,
\* the others as strings.
SegCmp(a, b) ==
    IF AllDigits(a) /\ AllDigits(b)
    THEN IF Len(a) < Len(b) THEN -1
         ELSE IF Len(a) > Len(b) THEN 1
         ELSE StrCmp(a, b)
    ELSE IF AllDigits(a) THEN -1
    ELSE IF AllDigits(b) THEN 1
    ELSE StrCmp(a, b)

RECURSIVE SegsCmp(_, _)
SegsCmp(a, b) ==
    IF Len(a) = 0 THEN (IF Len(b) = 0 THEN 0 ELSE -1)
    ELSE IF Len(b) = 0 THEN 1
    ELSE LET c == SegCmp(a[1], b[1])
         IN  IF c # 0 THEN c ELSE SegsCmp(Tail(a), Tail(b))

\* Prerelease's Ord: no pre-release is above every pre-release.
PreCmp(a, b) ==
    IF Len(a) = 0 /\ Len(b) = 0 THEN 0
    ELSE IF Len(a) = 0 THEN 1
    ELSE IF Len(b) = 0 THEN -1
    ELSE SegsCmp(Split(a), Split(b))

\* Version's Ord: major, minor, patch as numbers, then the pre-release.
VersionCmp(a, b) ==
    IF a.major # b.major THEN (IF a.major < b.major THEN -1 ELSE 1)
    ELSE IF a.minor # b.minor THEN (IF a.minor < b.minor THEN -1 ELSE 1)
    ELSE IF a.patch # b.patch THEN (IF a.patch < b.patch THEN -1 ELSE 1)
    ELSE PreCmp(a.pre, b.pre)

MatchesExact(cmp, ver) ==
    /\ ver.major = cmp.major
    /\ cmp.minor.some => ver.minor = cmp.minor.val
    /\ cmp.patch.some => ver.patch = cmp.patch.val
    /\ ver.pre = cmp.pre

MatchesGreater(cmp, ver) ==
    IF ver.major # cmp.major THEN ver.major > cmp.major
    ELSE IF ~cmp.minor.some THEN FALSE
    ELSE IF ver.minor # cmp.minor.val THEN ver.minor > cmp.minor.val
    ELSE IF ~cmp.patch.some THEN FALSE
    ELSE IF ver.patch # cmp.patch.val THEN ver.patch > cmp.patch.val
    ELSE PreCmp(ver.pre, cmp.pre) > 0

MatchesLess(cmp, ver) ==
    IF ver.major # cmp.major THEN ver.major < cmp.major
    ELSE IF ~cmp.minor.some THEN FALSE
    ELSE IF ver.minor # cmp.minor.val THEN ver.minor < cmp.minor.val
    ELSE IF ~cmp.patch.some THEN FALSE
    ELSE IF ver.patch # cmp.patch.val THEN ver.patch < cmp.patch.val
    ELSE PreCmp(ver.pre, cmp.pre) < 0

MatchesTilde(cmp, ver) ==
    IF ver.major # cmp.major THEN FALSE
    ELSE IF cmp.minor.some /\ ver.minor # cmp.minor.val THEN FALSE
    ELSE IF cmp.patch.some /\ ver.patch # cmp.patch.val THEN ver.patch > cmp.patch.val
    ELSE PreCmp(ver.pre, cmp.pre) >= 0

MatchesCaret(cmp, ver) ==
    IF ver.major # cmp.major THEN FALSE
    ELSE IF ~cmp.minor.some THEN TRUE
    ELSE IF ~cmp.patch.some
    THEN (IF cmp.major > 0 THEN ver.minor >= cmp.minor.val ELSE ver.minor = cmp.minor.val)
    ELSE IF cmp.major > 0 /\ ver.minor # cmp.minor.val THEN ver.minor > cmp.minor.val
    ELSE IF cmp.major > 0 /\ ver.patch # cmp.patch.val THEN ver.patch > cmp.patch.val
    ELSE IF cmp.major = 0 /\ cmp.minor.val > 0 /\ ver.minor # cmp.minor.val THEN FALSE
    ELSE IF cmp.major = 0 /\ cmp.minor.val > 0 /\ ver.patch # cmp.patch.val
    THEN ver.patch > cmp.patch.val
    ELSE IF cmp.major = 0 /\ cmp.minor.val = 0
            /\ (ver.minor # cmp.minor.val \/ ver.patch # cmp.patch.val)
    THEN FALSE
    ELSE PreCmp(ver.pre, cmp.pre) >= 0

MatchesImpl(cmp, ver) ==
    CASE cmp.op \in {"Exact", "Wildcard"} -> MatchesExact(cmp, ver)
      [] cmp.op = "Greater" -> MatchesGreater(cmp, ver)
      [] cmp.op = "GreaterEq" -> MatchesExact(cmp, ver) \/ MatchesGreater(cmp, ver)
      [] cmp.op = "Less" -> MatchesLess(cmp, ver)
      [] cmp.op = "LessEq" -> MatchesExact(cmp, ver) \/ MatchesLess(cmp, ver)
      [] cmp.op = "Tilde" -> MatchesTilde(cmp, ver)
      [] cmp.op = "Caret" -> MatchesCaret(cmp, ver)

\* A comparator on the version's own major.minor.patch that names a
\* pre-release.
PreIsCompatible(cmp, ver) ==
    /\ cmp.major = ver.major
    /\ cmp.minor = Some(ver.minor)
    /\ cmp.patch = Some(ver.patch)
    /\ Len(cmp.pre) > 0

\* VersionReq::matches: every comparator holds, and a pre-release version
\* needs a comparator that admits pre-releases of its version.
Matches(req, ver) ==
    /\ \A i \in 1..Len(req) : MatchesImpl(req[i], ver)
    /\ Len(ver.pre) > 0 => \E i \in 1..Len(req) : PreIsCompatible(req[i], ver)

(***************************************************************************)
(* packagist.rs: check_for_package_update                                  *)
(***************************************************************************)

NoneResult == [tag |-> "None", ver |-> <<>>]

SomeResult(ver) == [tag |-> "Some", ver |-> ver]

\* A failed unwrap(): the call does not return.
PanicResult == [tag |-> "Panic", ver |-> <<>>]

\* Lines 140-147.
ParsedMatches(req, parsed_version) == parsed_version.ok /\ Matches(req, parsed_version)

\* MatchingVersions without the req.matches test of line 142.
MatchingVersionsUnfiltered(versions, req) ==
    SelectSeq(versions, LAMBDA ver : VersionParse(ver).ok)

\* Lines 135-148: the releases, in input order, whose version parses and
\* matches the requirement.
MatchingVersions(versions, req) ==
    SelectSeq(versions, LAMBDA ver : ParsedMatches(req, VersionParse(ver)))

\* Lines 158-159 and 163-164: the dots removed, the rest read as an i32.
AsInt(version) == ParseI32(Remove(version, "."))

\* NewerThan pushing i_normalized for the i of line 167.
NewerThanNormalized(matching_versions, installed_as_int) ==
    IF ~installed_as_int.ok THEN [ok |-> FALSE, matching |-> <<>>]
    ELSE IF \E k \in 1..Len(matching_versions) : ~AsInt(matching_versions[k]).ok
    THEN [ok |-> FALSE, matching |-> <<>>]
    ELSE [ok |-> TRUE,
          matching |-> SelectSeq([k \in 1..Len(matching_versions) |->
                                     Remove(matching_versions[k], ".")],
                                 LAMBDA i : ParseI32(i).val > installed_as_int.val)]

\* Lines 158-169: the matching versions whose number is above the installed
\* version's number; ok is FALSE when an unwrap() fails.
NewerThan(matching_versions, installed_as_int) ==
    IF ~installed_as_int.ok THEN [ok |-> FALSE, matching |-> <<>>]
    ELSE IF \E k \in 1..Len(matching_versions) : ~AsInt(matching_versions[k]).ok
    THEN [ok |-> FALSE, matching |-> <<>>]
    ELSE [ok |-> TRUE,
          matching |-> SelectSeq(matching_versions,
                           LAMBDA i : AsInt(i).val > installed_as_int.val)]

NewerVersions(matching_versions, installed) ==
    NewerThan(matching_versions, AsInt(installed))

\* Lines 171-175.
FirstNewer(newer) ==
    IF ~newer.ok THEN PanicResult
    ELSE IF Len(newer.matching) <= 0 THEN NoneResult
    ELSE SomeResult(Head(newer.matching))

\* SelectUpdate with last() for the first() of line 154.
SelectUpdateLast(matching_versions, installed) ==
    IF Len(matching_versions) <= 0 THEN NoneResult
    ELSE IF installed = <<>>
    THEN SomeResult(matching_versions[Len(matching_versions)])
    ELSE FirstNewer(NewerVersions(matching_versions, installed))

\* Lines 150-175.
SelectUpdate(matching_versions, installed) ==
    IF Len(matching_versions) <= 0 THEN NoneResult
    ELSE IF installed = <<>> THEN SomeResult(Head(matching_versions))
    ELSE FirstNewer(NewerVersions(matching_versions, installed))

\* UpdateFor with an unwrap() for the match of lines 131-134.
UpdateForUnwrap(versions, version_constraint, installed) ==
    IF ~version_constraint.ok THEN PanicResult
    ELSE SelectUpdate(MatchingVersions(versions, version_constraint.comparators), installed)

\* Lines 133-178.
UpdateFor(versions, version_constraint, installed) ==
    IF ~version_constraint.ok THEN NoneResult
    ELSE SelectUpdate(MatchingVersions(versions, version_constraint.comparators), installed)

check_for_package_update(package, constraint, installed) ==
    UpdateFor(package.versions, VersionReqParse(constraint), installed)

\* Lines 182-185: the constraint split at "||", the spaces removed.
RECURSIVE SplitOr(_)
SplitOr(constraint) ==
    IF Contains(constraint, <<"|", "|">>)
    THEN LET i == CHOOSE k \in 1..(Len(constraint) - 1) :
                      /\ SubSeq(constraint, k, k + 1) = <<"|", "|">>
                      /\ \A j \in 1..(k - 1) : SubSeq(constraint, j, j + 1) # <<"|", "|">>
         IN  <<Remove(Take(constraint, i - 1), " ")>> \o SplitOr(Drop(constraint, i + 1))
    ELSE <<Remove(constraint, " ")>>

\* Lines 187-201: the updates of the alternatives, concatenated.  Nothing
\* calls parse_or_constraint.
RECURSIVE ConcatUpdates(_, _, _)
ConcatUpdates(package, split, installed) ==
    IF Len(split) = 0 THEN <<>>
    ELSE check_for_package_update(package, split[1], installed).ver
             \o ConcatUpdates(package, Tail(split), installed)

parse_or_constraint(package, constraint, installed) ==
    ConcatUpdates(package, SplitOr(constraint), installed)

(***************************************************************************)
(* composer.rs: the manifest on disk and ComposerFile::parse_from_path     *)
(***************************************************************************)

\* The manifest is a sequence of entries, one per line of its text:
\*   [kind |-> "open"]                     {
\*   [kind |-> "key", block |-> b]         "b": {
\*   [kind |-> "dep", name, version]       "name": "version"
\*   [kind |-> "dep_escaped", name, version]  the same, each "/" of the name
\*                                         written as the JSON escape "\/"
\*   [kind |-> "close"]                    }
\*   [kind |-> "garbage"]                  text that is not JSON
Q == "\""

REQUIRE == <<"r", "e", "q", "u", "i", "r", "e">>

REQUIRE_DEV == <<"r", "e", "q", "u", "i", "r", "e", "-", "d", "e", "v">>

COMPOSER_JSON == <<"c", "o", "m", "p", "o", "s", "e", "r", ".", "j", "s", "o", "n">>

EndsWith(s, p) == Len(s) >= Len(p) /\ SubSeq(s, Len(s) - Len(p) + 1, Len(s)) = p

\* The name as a JSON writer that escapes the solidus spells it.
RECURSIVE Escaped(_)
Escaped(name) ==
    IF Len(name) = 0 THEN <<>>
    ELSE (IF Head(name) = "/" THEN <<"\\", "/">> ELSE <<Head(name)>>) \o Escaped(Tail(name))

DepKinds == {"dep", "dep_escaped"}

\* The text of one line.
LineText(entry) ==
    CASE entry.kind = "open" -> <<"{">>
      [] entry.kind = "key" -> <<Q>> \o entry.block \o <<Q, ":", " ", "{">>
      [] entry.kind = "dep" ->
            <<Q>> \o entry.name \o <<Q, ":", " ", Q>> \o entry.version \o <<Q>>
      [] entry.kind = "dep_escaped" ->
            <<Q>> \o Escaped(entry.name) \o <<Q, ":", " ", Q>> \o entry.version \o <<Q>>
      [] entry.kind = "close" -> <<"}">>
      [] entry.kind = "garbage" -> <<"<", "<">>

Lines(doc) == [i \in 1..Len(doc) |-> LineText(doc[i])]

\* The first "key" line of the block, 0 when there is none.
KeyIndex(doc, block) ==
    IF \E i \in 1..Len(doc) : doc[i].kind = "key" /\ doc[i].block = block
    THEN CHOOSE i \in 1..Len(doc) :
             /\ doc[i].kind = "key" /\ doc[i].block = block
             /\ \A j \in 1..(i - 1) : ~(doc[j].kind = "key" /\ doc[j].block = block)
    ELSE 0

\* serde_json::from_reader(..).unwrap_or_default() (lines 79-80): the
\* name -> constraint map of a block, as a set of pairs; empty for a block
\* that is absent and for a document that is not JSON.
Decode(doc, block) ==
    LET k == KeyIndex(doc, block)
    IN  IF (\E i \in 1..Len(doc) : doc[i].kind = "garbage") \/ k = 0 THEN {}
        ELSE {[name |-> doc[i].name, version |-> doc[i].version] :
                 i \in {j \in (k + 1)..Len(doc) :
                           /\ doc[j].kind \in DepKinds
                           /\ \A m \in (k + 1)..j : doc[m].kind \in DepKinds}}

\* Lines 222-244: the 1-based number of the first line after the block's
\* key line that contains the name and the version.
RECURSIVE LineScan(_, _, _, _, _, _)
LineScan(lines, line_num, require_block_start, block_name, dependency_name, dependency_version) ==
    IF line_num > Len(lines) THEN NoneOpt
    ELSE LET line_text == lines[line_num]
             start == IF Contains(line_text, <<Q>> \o block_name \o <<Q, ":">>)
                      THEN line_num ELSE require_block_start
         IN  IF /\ start > 0
                /\ line_num > start
                /\ Contains(line_text, dependency_name)
                /\ Contains(line_text, dependency_version)
             THEN Some(line_num)
             ELSE LineScan(lines, line_num + 1, start, block_name,
                           dependency_name, dependency_version)

get_line_num(lines, block_name, dependency_name, dependency_version) ==
    LineScan(lines, 1, 0, block_name, dependency_name, dependency_version)

\* BlockDependencies with a break for the None arm of lines 98-100.
RECURSIVE BlockDependenciesUntilNone(_, _, _)
BlockDependenciesUntilNone(lines, block_name, order) ==
    IF Len(order) = 0 THEN <<>>
    ELSE LET line_num == get_line_num(lines, block_name, order[1].name, order[1].version)
         IN  IF line_num.some
             THEN <<[name |-> order[1].name, version |-> order[1].version,
                     line |-> line_num.val - 1]>>
                      \o BlockDependenciesUntilNone(lines, block_name, Tail(order))
             ELSE <<>>

\* Lines 83-102 and 105-124: the dependencies of one block, in the order
\* the map is iterated; one without a line is left out.
RECURSIVE BlockDependencies(_, _, _)
BlockDependencies(lines, block_name, order) ==
    IF Len(order) = 0 THEN <<>>
    ELSE LET line_num == get_line_num(lines, block_name, order[1].name, order[1].version)
             rest == BlockDependencies(lines, block_name, Tail(order))
         IN  IF line_num.some
             THEN <<[name |-> order[1].name, version |-> order[1].version,
                     line |-> line_num.val - 1]>> \o rest
             ELSE rest

\* HashMap::insert of every dependency's line, in order: the last one wins.
RECURSIVE InsertLines(_, _)
InsertLines(map, deps) ==
    IF Len(deps) = 0 THEN map
    ELSE InsertLines(
             (deps[1].line :> deps[1].name) @@ map,
             Tail(deps))

EmptyMap == [x \in {} |-> <<>>]

(***************************************************************************)
(* composer.rs: ComposerFile::parse_lock_file                              *)
(***************************************************************************)

\* The lock file is [kind, packages]: kind is "missing", "not_json",
\* "not_object", "no_packages", "not_array" or "packages"; packages is the
\* packages array, each item [shape, name, version] with shape "entry",
\* "not_object", "no_name" or "no_version".

\* Value::to_string of a JSON string: the string in quotes.
ToJson(str) == <<Q>> \o str \o <<Q>>

\* Lines 169-174.
LockName(item) == Remove(Remove(ToJson(item.name), Q), "'")

\* Lines 176-182.
LockVersion(item) == Remove(Remove(Remove(ToJson(item.version), Q), "v"), "'")

\* LockVersions with an entry kept once its name is in the map.
RECURSIVE LockVersionsFirst(_, _)
LockVersionsFirst(map, packages) ==
    IF Len(packages) = 0 THEN map
    ELSE IF packages[1].shape = "not_object" THEN LockVersionsFirst(map, Tail(packages))
    ELSE LockVersionsFirst(
             map @@ (LockName(packages[1]) :>
                        [name |-> LockName(packages[1]),
                         version |-> LockVersion(packages[1])]),
             Tail(packages))

\* Lines 164-193: HashMap::insert per item, the last one wins.
RECURSIVE LockVersions(_, _)
LockVersions(map, packages) ==
    IF Len(packages) = 0 THEN map
    ELSE IF packages[1].shape = "not_object" THEN LockVersions(map, Tail(packages))
    ELSE LET name == LockName(packages[1])
             installed_package == [name |-> name, version |-> LockVersion(packages[1])]
         IN  LockVersions(
                 (name :> installed_package) @@ map,
                 Tail(packages))

NoLock == [some |-> FALSE, versions |-> EmptyMap]

\* [ok, lock]: ok is FALSE when an unwrap() fails.
parse_lock_file(lock_file) ==
    CASE lock_file.kind \in {"missing", "not_json"} -> [ok |-> TRUE, lock |-> NoLock]
      [] lock_file.kind \in {"not_object", "not_array"} -> [ok |-> FALSE, lock |-> NoLock]
      [] lock_file.kind = "no_packages" ->
            [ok |-> TRUE, lock |-> [some |-> TRUE, versions |-> EmptyMap]]
      [] lock_file.kind = "packages" ->
            IF \E i \in 1..Len(lock_file.packages) :
                   lock_file.packages[i].shape \in {"no_name", "no_version"}
            THEN [ok |-> FALSE, lock |-> NoLock]
            ELSE [ok |-> TRUE,
                  lock |-> [some |-> TRUE,
                            versions |-> LockVersions(EmptyMap, lock_file.packages)]]

\* Lines 62-130.  file is the manifest on disk ([exists, doc]); require_order
\* and dev_order are the orders in which the two maps are iterated.
\* [ok, some, file]: ok is FALSE when an unwrap() fails, some is FALSE for None.
parse_from_path(filepath, file, lock_file, require_order, dev_order) ==
    LET none == [path |-> filepath, dependencies |-> <<>>, dev_dependencies |-> <<>>,
                 lock |-> NoLock, dependencies_by_line |-> EmptyMap]
    IN  IF ~EndsWith(filepath, COMPOSER_JSON)
        THEN [ok |-> TRUE, some |-> FALSE, file |-> none]
        ELSE IF ~file.exists THEN [ok |-> FALSE, some |-> FALSE, file |-> none]
        ELSE LET lines == Lines(file.doc)
                 dependencies == BlockDependencies(lines, REQUIRE, require_order)
                 dev_dependencies == BlockDependencies(lines, REQUIRE_DEV, dev_order)
                 lock == parse_lock_file(lock_file)
             IN  IF ~lock.ok THEN [ok |-> FALSE, some |-> FALSE, file |-> none]
                 ELSE [ok |-> TRUE, some |-> TRUE,
                       file |-> [path |-> filepath,
                                 dependencies |-> dependencies,
                                 dev_dependencies |-> dev_dependencies,
                                 lock |-> lock.lock,
                                 dependencies_by_line |->
                                     InsertLines(InsertLines(EmptyMap, dependencies),
                                                 dev_dependencies)]]

(***************************************************************************)
(* packagist.rs: get_packages_info                                         *)
(***************************************************************************)

\* The registry's answer for a name is [kind, items]: kind is "send_error"
\* (the request fails), "body_error" (the body cannot be read), "not_json",
\* "not_object", "no_packages", "no_entry", "not_array" or "releases"; items
\* are the releases, each [shape, version] with shape "release" or
\* "malformed" (not an object, or without a version string).

\* Lines 96-103.
empty_package == [name |-> <<>>, versions |-> <<>>]

\* Lines 29-106, one lookup: status is "ok" (a Package), "err" (Err, the
\* request failed) or "panic" (an unwrap() or expect() failed).
Lookup(name, response) ==
    CASE response.kind = "send_error" -> [status |-> "err", package |-> empty_package]
      [] response.kind = "body_error" -> [status |-> "panic", package |-> empty_package]
      [] response.kind \in {"not_json", "not_object"} ->
            [status |-> "ok", package |-> empty_package]
      [] response.kind \in {"no_packages", "no_entry", "not_array"} ->
            [status |-> "ok", package |-> [name |-> name, versions |-> <<>>]]
      [] response.kind = "releases" ->
            IF \E i \in 1..Len(response.items) : response.items[i].shape = "malformed"
            THEN [status |-> "panic", package |-> empty_package]
            ELSE [status |-> "ok",
                  package |-> [name |-> name,
                               versions |-> [i \in 1..Len(response.items) |->
                                                Remove(response.items[i].version, "v")]]]

\* A lookup that has not settled.
Unsettled == [status |-> "unsettled", package |-> empty_package]

\* Line 27: one lookup for each package, none of them settled.
RECURSIVE Requests(_)
Requests(n) == IF n = 0 THEN <<>> ELSE Append(Requests(n - 1), Unsettled)

\* Settle with a return at the first Err, the lookups still open dropped.
RECURSIVE SettleUntilErr(_, _, _, _)
SettleUntilErr(bodies, packages, reg, completed) ==
    IF Len(completed) = 0 THEN bodies
    ELSE IF Lookup(packages[completed[1]].name, reg[packages[completed[1]].name]).status = "err"
    THEN bodies
    ELSE SettleUntilErr(
             [bodies EXCEPT ![completed[1]] =
                 Lookup(packages[completed[1]].name, reg[packages[completed[1]].name])],
             packages, reg, Tail(completed))

\* Lines 27-108, future::join_all: the lookups settle in the order
\* completed, and the output of each takes the place of its request.
RECURSIVE Settle(_, _, _, _)
Settle(bodies, packages, reg, completed) ==
    IF Len(completed) = 0 THEN bodies
    ELSE Settle(
             [bodies EXCEPT ![completed[1]] =
                 Lookup(packages[completed[1]].name, reg[packages[completed[1]].name])],
             packages, reg, Tail(completed))

\* Lines 110-121: the Ok results inserted under their names, in the order
\* of bodies; a later one replaces an earlier one of the same name.
RECURSIVE InsertPackages(_, _)
InsertPackages(hashmap, bodies) ==
    IF Len(bodies) = 0 THEN hashmap
    ELSE IF bodies[1].status # "ok" THEN InsertPackages(hashmap, Tail(bodies))
    ELSE InsertPackages(
             (bodies[1].package.name :> bodies[1].package) @@ hashmap,
             Tail(bodies))

\* Lines 110-123.  [ok, hashmap]: ok is FALSE when a lookup has panicked.
CollectBodies(bodies) ==
    IF \E i \in 1..Len(bodies) : bodies[i].status = "panic"
    THEN [ok |-> FALSE, hashmap |-> EmptyMap]
    ELSE [ok |-> TRUE, hashmap |-> InsertPackages(EmptyMap, bodies)]

\* Lines 24-124; completed is the order in which the lookups settle.
get_packages_info(packages, reg, completed) ==
    CollectBodies(Settle(Requests(Len(packages)), packages, reg, completed))

(***************************************************************************)
(* main.rs: Backend::on_save, lines 192-252                                *)
(***************************************************************************)

\* Line 241: format!("Update available: {:?}", version).
Message(version) == <<"Update available: ", Q>> \o version \o <<Q>>

\* Lines 226-245.
Diagnostic(item, version) ==
    [range |-> [start |-> [line |-> item.line, character |-> 1],
                end |-> [line |-> 0, character |-> 1]],
     severity |-> "WARNING",
     message |-> Message(version)]

\* composer_lock_version with the text of the missing entry for a package
\* the lock does not list.
composer_lock_versionDebug(lock, name) ==
    IF lock.some /\ Cardinality(DOMAIN lock.versions) > 0 /\ name \in DOMAIN lock.versions
    THEN lock.versions[name].version
    ELSE <<"N", "o", "n", "e">>

\* Lines 204-219: the installed version of the lock, "" without one.
composer_lock_version(lock, name) ==
    IF lock.some /\ Cardinality(DOMAIN lock.versions) > 0 /\ name \in DOMAIN lock.versions
    THEN lock.versions[name].version
    ELSE <<>>

\* Lines 196-251, one dependency: what check_for_package_update gives, None
\* for a dependency that is skipped.
ItemUpdate(item, lock, update_data) ==
    IF item.name = <<>> THEN NoneResult
    ELSE IF item.name \notin DOMAIN update_data THEN NoneResult
    ELSE check_for_package_update(update_data[item.name],
                                  Remove(item.version, Q),
                                  composer_lock_version(lock, item.name))

\* Lines 221-248: the diagnostic of one update put before the others'.
PushDiagnostic(item, update, rest) ==
    IF update.tag = "Panic" THEN [ok |-> FALSE, diagnostics |-> <<>>]
    ELSE IF ~rest.ok THEN [ok |-> FALSE, diagnostics |-> <<>>]
    ELSE IF update.tag = "Some"
    THEN [ok |-> TRUE, diagnostics |-> <<Diagnostic(item, update.ver)>> \o rest.diagnostics]
    ELSE rest

\* Lines 192-252: the diagnostics of the dependencies, in order; ok is FALSE
\* when check_for_package_update panics.
RECURSIVE Diagnostics(_, _, _)
Diagnostics(dependencies, lock, update_data) ==
    IF Len(dependencies) = 0 THEN [ok |-> TRUE, diagnostics |-> <<>>]
    ELSE PushDiagnostic(dependencies[1],
                        ItemUpdate(dependencies[1], lock, update_data),
                        Diagnostics(Tail(dependencies), lock, update_data))

\* Line 190: the dependencies whose registry data on_save fetches and
\* (line 195) whose updates it reports.
SavedDependencies(file) == file.dependencies

(***************************************************************************)
(* Inputs                                                                  *)
(***************************************************************************)

V3(a, b, c) == <<a, ".", b, ".", c>>

\* packagist.rs, tests::get_package_mock.
MockVersions ==
    <<V3("2", "2", "1"), V3("2", "1", "1"), V3("2", "1", "0"), V3("2", "0", "0"),
      V3("1", "9", "0"), V3("1", "8", "1"), V3("1", "8", "0")>>

\* Release version strings: plain ones, two whose components differ in
\* digit count, a pre-release, one with build metadata, one that is no
\* semantic version and one whose digits exceed an i32.
VersionPool ==
    {V3("2", "2", "1"), V3("2", "1", "1"), V3("1", "9", "0"),
     <<"2", ".", "1", "0", ".", "0">>, V3("2", "9", "0"), V3("3", "0", "0"),
     <<"1", ".", "0", ".", "0", "-", "b">>, <<"1", ".", "0", ".", "0", "+", "b">>,
     <<"d", "e", "-", "m">>,
     <<"1", ".", "9", "9", "9", "9", "9", ".", "9", "9", "9", "9", "9">>}

\* The longest release list besides the mock's.
MaxReleases == 2

RECURSIVE SeqsUpTo(_, _)
SeqsUpTo(S, n) ==
    IF n = 0 THEN {<<>>}
    ELSE LET shorter == SeqsUpTo(S, n - 1)
         IN  shorter \cup {Append(q, x) : q \in {r \in shorter : Len(r) = n - 1}, x \in S}

ReleaseLists == {MockVersions} \cup SeqsUpTo(VersionPool, MaxReleases)

C_Caret20 == <<"^", "2", ".", "0">>

C_Caret10 == <<"^", "1", ".", "0">>

C_Gt20 == <<">", "2", ".", "0">>

C_Ge20 == <<">", "=", "2", ".", "0">>

C_Le20 == <<"<", "=", "2", ".", "0">>

C_Le21 == <<"<", "=", "2", ".", "1">>

C_Star == <<"*">>

C_Tilde18 == <<"~", "1", ".", "8">>

C_Or == <<"^", "2", ".", "1", ".", "0", " ", "|", "|", " ", "^", "2", ".", "2", ".", "0">>

C_Dev == <<"d", "e", "v", "-", "m">>

C_GePre == <<">", "=", "1", ".", "0", ".", "0", "-", "a">>

ConstraintPool ==
    {C_Caret20, C_Caret10, C_Gt20, C_Ge20, C_Le20, C_Le21, C_Star, C_Tilde18,
     C_Or, C_Dev, C_GePre, <<>>}

\* Installed versions as the lock gives them: none, plain ones, and a
\* branch name ("dev-m" with its v removed).
InstalledPool ==
    {<<>>, V3("2", "1", "0"), V3("2", "2", "0"), V3("2", "2", "1"), V3("2", "9", "0"),
     <<"2", ".", "1", "0", ".", "0">>, <<"d", "e", "-", "m">>}

PkgA == <<"a", "/", "a">>

PkgB == <<"a", "/", "b">>

PkgD == <<"d", "/", "d">>

Dep(name, version) == [kind |-> "dep", name |-> name, version |-> version]

Key(block) == [kind |-> "key", block |-> block]

Open == [kind |-> "open"]

Close == [kind |-> "close"]

DocBoth ==
    <<Open, Key(REQUIRE), Dep(PkgA, C_Caret20), Dep(PkgB, C_Caret10), Close,
      Key(REQUIRE_DEV), Dep(PkgD, C_Caret10), Close, Close>>

DocOr == <<Open, Key(REQUIRE), Dep(PkgB, C_Or), Dep(PkgA, C_Star), Close, Close>>

DocEmptyName == <<Open, Key(REQUIRE), Dep(<<>>, C_Caret20), Dep(PkgB, C_Ge20), Close, Close>>

DocDevOnly == <<Open, Key(REQUIRE_DEV), Dep(PkgA, C_Caret20), Close, Close>>

DocPool == {DocBoth, DocOr, DocEmptyName, DocDevOnly}

PkgAB == <<"a", "/", "a", "b">>

DepEscaped(name, version) == [kind |-> "dep_escaped", name |-> name, version |-> version]

\* A name and a constraint that are parts of those of the line before.
DocSubstring ==
    <<Open, Key(REQUIRE), Dep(PkgAB, <<"^", "2", ".", "0", ".", "1">>), Dep(PkgA, C_Caret20),
      Dep(PkgB, C_Caret10), Close, Close>>

\* One package in both blocks, with the same constraint.
DocSameName ==
    <<Open, Key(REQUIRE), Dep(PkgB, C_Caret10), Dep(PkgA, C_Caret20), Close,
      Key(REQUIRE_DEV), Dep(PkgA, C_Caret20), Close, Close>>

\* The same with require-dev first.
DocDevFirst ==
    <<Open, Key(REQUIRE_DEV), Dep(PkgA, C_Caret20), Close,
      Key(REQUIRE), Dep(PkgA, C_Caret20), Dep(PkgB, C_Caret10), Close, Close>>

\* One package in both blocks, its name escaped in require.
DocEscaped ==
    <<Open, Key(REQUIRE), DepEscaped(PkgA, C_Caret20), Dep(PkgB, C_Caret10), Close,
      Key(REQUIRE_DEV), Dep(PkgA, C_Caret20), Close, Close>>

\* A name that is written escaped and nowhere else.
DocUnlocated ==
    <<Open, Key(REQUIRE), DepEscaped(PkgA, C_Caret20), Dep(PkgB, C_Caret10), Close,
      Key(REQUIRE_DEV), Dep(PkgD, C_Caret10), Close, Close>>

Garbage == [kind |-> "garbage"]

DocNotJson == <<Open, Key(REQUIRE), Dep(PkgA, C_Caret20), Garbage, Close, Close>>

ParserDocs ==
    DocPool \cup {DocSubstring, DocSameName, DocDevFirst, DocEscaped, DocUnlocated, DocNotJson}

Entry(name, version) == [shape |-> "entry", name |-> name, version |-> version]

LockMissing == [kind |-> "missing", packages |-> <<>>]

LockPlain ==
    [kind |-> "packages",
     packages |-> <<Entry(PkgA, <<"v", "2", ".", "1", ".", "0">>), Entry(PkgB, V3("1", "9", "0"))>>]

LockBranch ==
    [kind |-> "packages", packages |-> <<Entry(PkgA, <<"d", "e", "v", "-", "m">>)>>]

LockPool == {LockMissing, LockPlain, LockBranch}

Release(version) == [shape |-> "release", version |-> version]

Releases(items) == [kind |-> "releases", items |-> items]

Answer(kind) == [kind |-> kind, items |-> <<>>]

Names == {PkgA, PkgB, PkgD, <<>>}

RegistryFull ==
    [n \in Names |->
        CASE n = PkgA -> Releases(<<Release(<<"v", "2", ".", "2", ".", "1">>),
                                    Release(V3("2", "1", "0"))>>)
          [] n = PkgB -> Releases(<<Release(V3("2", "2", "1")), Release(V3("1", "9", "0"))>>)
          [] n = PkgD -> Releases(<<Release(V3("1", "9", "0"))>>)
          [] OTHER -> Releases(<<Release(V3("2", "2", "1"))>>)]

RegistryPartial ==
    [n \in Names |->
        CASE n = PkgA -> Answer("send_error")
          [] n = PkgB -> Releases(<<Release(V3("2", "2", "1"))>>)
          [] n = PkgD -> Answer("not_object")
          [] OTHER -> Answer("not_json")]

RegistryPool == {RegistryFull, RegistryPartial}

Malformed == [shape |-> "malformed", version |-> <<>>]

\* What one lookup may be answered with.
AnswerPool ==
    {Answer("send_error"), Answer("body_error"), Answer("not_json"), Answer("no_entry"),
     Releases(<<Release(V3("2", "2", "1")), Release(<<"v", "1", ".", "9", ".", "0">>)>>),
     Releases(<<Release(V3("2", "2", "1")), Malformed>>)}

AnswerMaps == {reg \in [Names -> AnswerPool] : reg[<<>>] = Answer("not_json")}

Listed(name, version, line) == [name |-> name, version |-> version, line |-> line]

\* The dependency lists a batch is fetched for.
BatchLists ==
    {list \in UNION {[1..n -> {Listed(PkgA, C_Caret20, 2), Listed(PkgB, C_Caret10, 3),
                               Listed(PkgD, C_Star, 4)}] : n \in 1..3} :
        \A i, j \in 1..Len(list) : i # j => list[i] # list[j]}

ManifestUri == <<"/">> \o COMPOSER_JSON

OtherUri == <<"/", "a", ".", "j", "s", "o", "n">>

UriPool == {ManifestUri, OtherUri}

\* The most saves of one behaviour.
MaxSaves == 2

\* Every order in which n lookups may settle.
SettlingOrders(n) ==
    {order \in [1..n -> 1..n] : \A i, j \in 1..n : i # j => order[i] # order[j]}

\* Every order in which a HashMap may iterate over the pairs of a set.
Orders(S) ==
    {order \in [1..Cardinality(S) -> S] : \A i, j \in 1..Cardinality(S) : i # j => order[i] # order[j]}

(***************************************************************************)
(* State                                                                   *)
(***************************************************************************)

VARIABLES
    disk,           \* the manifest file: [exists, doc]
    lock_file,      \* the lock file beside it
    registry,       \* the registry's answer for each name
    composer_file,  \* Backend.composer_file: the entry under "data"
    saves,          \* the on_save calls so far: [pc, uri, composer_file, diagnostics]
    published,      \* the client's diagnostics: the last publish_diagnostics
    crashed,        \* a handler has panicked
    query,          \* the hover or goto-definition request, if any
    hung,           \* a handler waits for a lock that is never released
    packagist_packages,  \* Backend.packagist_packages: the entry under "data"
    buffer,         \* Backend.buffer: the text of the document by line
    call,           \* the arguments of a check_for_package_update call
    result          \* and what it returned

vars ==
    <<disk, lock_file, registry, composer_file, saves, published, crashed, query, hung,
      packagist_packages, buffer, call, result>>

server_vars ==
    <<disk, lock_file, registry, composer_file, saves, published, crashed, query, hung,
      packagist_packages, buffer>>

\* No entry under "data" in packagist_packages.
NoPackages == [present |-> FALSE, data |-> <<>>]

NoFile ==
    [path |-> <<>>, dependencies |-> <<>>, dev_dependencies |-> <<>>, lock |-> NoLock,
     dependencies_by_line |-> EmptyMap]

Pending == [tag |-> "Pending", ver |-> <<>>]

\* No request yet.
NoQuery ==
    [pc |-> "idle", kind |-> "none", line |-> 0, awaits |-> "nothing", name |-> <<>>,
     held |-> NoFile, lock |-> NoLock, outcome |-> "none"]

NoCall == [package |-> empty_package, constraint |-> <<>>, installed |-> <<>>]

\* main.rs 646-651: the maps of a new Backend are empty.
ServerInit ==
    /\ disk \in {[exists |-> TRUE, doc |-> d] : d \in DocPool}
    /\ lock_file \in LockPool
    /\ registry \in RegistryPool
    /\ composer_file = [present |-> FALSE, data |-> NoFile]
    /\ saves = <<>>
    /\ published = [any |-> FALSE, by |-> 0, diagnostics |-> <<>>]
    /\ crashed = FALSE
    /\ query = NoQuery
    /\ hung = FALSE
    /\ packagist_packages = NoPackages
    /\ buffer = EmptyMap

Init ==
    /\ ServerInit
    /\ call = NoCall
    /\ result = Pending

(***************************************************************************)
(* main.rs: Backend::on_save                                               *)
(***************************************************************************)

\* StoreSnapshot with the lock of the entry it replaces left in place.
StoreSnapshotKeepLock(old, file) ==
    [present |-> TRUE,
     data |-> IF old.present THEN [file EXCEPT !.lock = old.data.lock] ELSE file]

\* StoreSnapshot with the lines of the entry it replaces kept in the index.
StoreSnapshotMerged(old, file) ==
    [present |-> TRUE,
     data |-> [file EXCEPT !.dependencies_by_line =
                               file.dependencies_by_line @@ old.data.dependencies_by_line]]

\* StoreSnapshot with the insert of line 187 put off until the lookups
\* have settled: a save that replaces an entry leaves the slot empty.
StoreSnapshotRemoved(old, file) ==
    IF old.present THEN [present |-> FALSE, data |-> NoFile]
    ELSE [present |-> TRUE, data |-> file]

\* Lines 182-188: the entry under "data" removed, the new one inserted.
StoreSnapshot(old, file) == [present |-> TRUE, data |-> file]

\* PublishedDiagnostics with a vector that outlives the save.
PublishedDiagnosticsKept(previous, diagnostics) == previous \o diagnostics

\* Lines 192 and 254-256: the diagnostics a save publishes are those it has
\* pushed onto its own, new vector.
PublishedDiagnostics(previous, diagnostics) == diagnostics

\* Lines 264 and 399: the request has the Ref of composer_file.get("data"),
\* a read lock on the entry, from its first line to its return.
Held(q) == q.pc = "waiting"

\* Lines 178-190, up to the await of the registry lookups: the manifest is
\* parsed and stored.  A None from parse_from_path fails the expect().  The
\* remove() of line 184 takes the write lock of the entry: while a request
\* that is suspended holds its Ref, the call waits inside remove(), and
\* with it the task that polls every handler.
DidSave(uri, require_order, dev_order) ==
    /\ ~crashed
    /\ ~hung
    /\ Len(saves) < MaxSaves
    /\ LET parsed == parse_from_path(uri, disk, lock_file, require_order, dev_order)
       IN  IF ~(parsed.ok /\ parsed.some)
           THEN /\ composer_file' = composer_file
                /\ saves' = Append(saves, [pc |-> "panicked", uri |-> uri,
                                           composer_file |-> NoFile,
                                           diagnostics |-> <<>>])
                /\ crashed' = TRUE
                /\ hung' = FALSE
           ELSE IF Held(query)
           THEN /\ composer_file' = composer_file
                /\ saves' = Append(saves, [pc |-> "blocked", uri |-> uri,
                                           composer_file |-> parsed.file,
                                           diagnostics |-> <<>>])
                /\ crashed' = FALSE
                /\ hung' = TRUE
           ELSE /\ composer_file' = StoreSnapshot(composer_file, parsed.file)
                /\ saves' = Append(saves, [pc |-> "fetching", uri |-> uri,
                                           composer_file |-> parsed.file,
                                           diagnostics |-> <<>>])
                /\ crashed' = FALSE
                /\ hung' = FALSE
    /\ UNCHANGED <<disk, lock_file, registry, published, query, call, result,
                   packagist_packages, buffer>>

\* Lines 190-256: the lookups have settled; the diagnostics are computed
\* and published.
SaveFinish(i, completed) ==
    /\ ~crashed
    /\ ~hung
    /\ i \in 1..Len(saves)
    /\ saves[i].pc = "fetching"
    /\ LET file == saves[i].composer_file
           update_data == get_packages_info(SavedDependencies(file), registry, completed)
           diag == Diagnostics(SavedDependencies(file), file.lock, update_data.hashmap)
       IN  IF update_data.ok /\ diag.ok
           THEN /\ published' = [any |-> TRUE, by |-> i,
                                 diagnostics |->
                                     PublishedDiagnostics(published.diagnostics,
                                                          diag.diagnostics)]
                /\ saves' = [saves EXCEPT ![i].pc = "done",
                                          ![i].diagnostics = published'.diagnostics]
                /\ crashed' = FALSE
           ELSE /\ published' = published
                /\ saves' = [saves EXCEPT ![i].pc = "panicked"]
                /\ crashed' = TRUE
    /\ UNCHANGED <<disk, lock_file, registry, composer_file, query, hung, call, result,
                   packagist_packages, buffer>>

\* The user rewrites the manifest.  A rewrite after the last save that is
\* followed has no reader and is left out.
EditManifest(d) ==
    /\ ~crashed
    /\ ~hung
    /\ Len(saves) < MaxSaves
    /\ disk.doc # d
    /\ disk' = [exists |-> TRUE, doc |-> d]
    /\ UNCHANGED <<lock_file, registry, composer_file, saves, published, crashed, query, hung,
                   call, result,
                   packagist_packages, buffer>>

\* composer installs or updates: the lock file changes.
ChangeLock(l) ==
    /\ ~crashed
    /\ ~hung
    /\ Len(saves) < MaxSaves
    /\ lock_file # l
    /\ lock_file' = l
    /\ UNCHANGED <<disk, registry, composer_file, saves, published, crashed, query, hung,
                   call, result,
                   packagist_packages, buffer>>

(***************************************************************************)
(* main.rs: Backend::on_hover and Backend::goto_definition                 *)
(***************************************************************************)

QueryKinds == {"hover", "goto_definition"}

\* The lines a request is made for.
QueryLines == {2, 6}

\* packagist.rs 204-270, get_package_info, as far as the src/ tree has it:
\* "panic" when an unwrap() fails, else "some" or "none".  The first item is
\* unwrapped as an object (226) that has a description, a name and a
\* homepage (228-230); a "bare" item is an object with a version only.
PackageInfo(response) ==
    CASE response.kind \in {"send_error", "body_error"} -> "panic"
      [] response.kind \in {"not_json", "not_object", "no_packages", "no_entry", "not_array"} ->
            "none"
      [] response.kind = "releases" ->
            IF Len(response.items) = 0 \/ response.items[1].shape \in {"malformed", "bare"}
            THEN "panic" ELSE "some"

\* What the request has when it reaches its first await.
Suspended(kind, line, file) ==
    [pc |-> "waiting", kind |-> kind, line |-> line,
     awaits |-> IF line \in DOMAIN file.dependencies_by_line THEN "registry" ELSE "log",
     name |-> IF line \in DOMAIN file.dependencies_by_line
              THEN file.dependencies_by_line[line] ELSE <<>>,
     held |-> file, lock |-> NoLock, outcome |-> "none"]

\* Lines 286 and 421: the lock the request matches on after the await is
\* that of the ComposerFile it holds.
LockRead(held, stored) == held.lock

\* Lines 259-271 and 391-406, up to the first await: without an entry
\* under "data" the request returns None; else it takes the entry and looks
\* the line up in its line index.
QueryStart(kind, line) ==
    /\ ~crashed
    /\ ~hung
    /\ query.pc # "waiting"
    /\ query' = IF composer_file.present
                THEN Suspended(kind, line, composer_file.data)
                ELSE [NoQuery EXCEPT !.pc = "returned", !.kind = kind, !.line = line]
    /\ UNCHANGED <<disk, lock_file, registry, composer_file, saves, published, crashed, hung,
                   call, result,
                   packagist_packages, buffer>>

\* Lines 271-388 and 406-487, from the first await on: the log message is
\* sent, or the registry has answered and the lock is read.
QueryFinish ==
    /\ ~crashed
    /\ ~hung
    /\ query.pc = "waiting"
    /\ IF query.awaits = "registry" /\ PackageInfo(registry[query.name]) = "panic"
       THEN /\ query' = [query EXCEPT !.pc = "panicked"]
            /\ crashed' = TRUE
       ELSE /\ query' = [query EXCEPT
                             !.pc = "returned",
                             !.lock = IF query.awaits = "registry"
                                         /\ PackageInfo(registry[query.name]) = "some"
                                      THEN LockRead(query.held, composer_file.data)
                                      ELSE NoLock,
                             !.outcome = IF query.awaits = "registry"
                                         THEN PackageInfo(registry[query.name])
                                         ELSE "none"]
            /\ crashed' = FALSE
    /\ UNCHANGED <<disk, lock_file, registry, composer_file, saves, published, hung,
                   call, result,
                   packagist_packages, buffer>>

(***************************************************************************)
(* main.rs: what on_hover and goto_definition answer                       *)
(***************************************************************************)

\* Option<String>::None.
NoText == [some |-> FALSE, val |-> <<>>]

\* The fields of a PackageVersion that the two requests read.
PackageVersion(version, description, homepage, packagist_url) ==
    [version |-> version, description |-> description, homepage |-> homepage,
     packagist_url |-> packagist_url]

\* Lines 274-284 and 409-419.
NoPackageVersion == PackageVersion(NoText, NoText, NoText, NoText)

\* The browsable page of a package.
PackagistUrl(name) == <<"https://packagist.org/packages/">> \o name

\* The Release of one item of the registry's list: its version string, its
\* description and homepage where the item has them, and the constructed
\* URL.  An item that is no object gives no field.
PackageVersionOf(name, item) ==
    CASE item.shape = "release" ->
            PackageVersion(Some(item.version), Some(<<"description of ">> \o item.version),
                           Some(<<"homepage of ">> \o item.version), Some(PackagistUrl(name)))
      [] item.shape = "bare" ->
            PackageVersion(Some(item.version), NoText, NoText, Some(PackagistUrl(name)))
      [] OTHER -> NoPackageVersion

\* data.versions: the releases in the order of the registry's list.
RECURSIVE PackageVersions(_, _)
PackageVersions(name, items) ==
    IF Len(items) = 0 THEN <<>>
    ELSE <<PackageVersionOf(name, Head(items))>> \o PackageVersions(name, Tail(items))

\* Lines 293-295 (on_hover) and 428 (goto_definition).
VersionMatches(kind, item_version, installed_version) ==
    IF kind = "hover"
    THEN Remove(item_version, ".") = Remove(installed_version, ".")
    ELSE item_version = installed_version

\* Lines 289-298 and 424-432, the loop over data.versions: [ok, version],
\* ok is FALSE when item.version is None.
RECURSIVE SelectInstalled(_, _, _, _)
SelectInstalled(kind, versions, installed_version, package_version) ==
    IF Len(versions) = 0 THEN [ok |-> TRUE, version |-> package_version]
    ELSE IF ~Head(versions).version.some THEN [ok |-> FALSE, version |-> package_version]
    ELSE SelectInstalled(kind, Tail(versions), installed_version,
                         IF VersionMatches(kind, Head(versions).version.val, installed_version)
                         THEN Head(versions) ELSE package_version)

\* data.versions.get(0).unwrap().
Latest(versions) ==
    IF Len(versions) = 0 THEN [ok |-> FALSE, version |-> NoPackageVersion]
    ELSE [ok |-> TRUE, version |-> versions[1]]

\* Lines 286-308 and 421-441.
SelectVersion(kind, lock, name, versions) ==
    IF lock.some /\ name \in DOMAIN lock.versions
    THEN SelectInstalled(kind, versions, lock.versions[name].version, NoPackageVersion)
    ELSE Latest(versions)

\* Lines 312-332: the description of package_version, else that of the
\* first release, unwrapped.
Description(package_version, versions) ==
    IF package_version.description.some THEN package_version.description
    ELSE Latest(versions).version.description

\* Lines 334-349: the homepage likewise.
Homepage(package_version, versions) ==
    IF package_version.homepage.some
    THEN Some(<<"Homepage: ">> \o package_version.homepage.val)
    ELSE Latest(versions).version.homepage

\* What a request ends with: tag is "Some" (a Hover), "None" or "Panic";
\* logged says that an error went to the client's log; selected is
\* package_version, contents what is shown or opened.
QueryAnswer(tag, logged, selected, contents) ==
    [tag |-> tag, logged |-> logged, selected |-> selected, contents |-> contents,
     range |-> [start |-> [line |-> 0, character |-> 0],
                end |-> [line |-> 0, character |-> 0]]]

\* Lines 356-367: the range of the Hover that is returned.
HoverRange(answer, line) ==
    IF answer.tag = "Some"
    THEN [answer EXCEPT !.range = [start |-> [line |-> line, character |-> 1],
                                   end |-> [line |-> 0, character |-> 1]]]
    ELSE answer

QueryPanic == QueryAnswer("Panic", FALSE, NoPackageVersion, <<>>)

\* Lines 310-365.
Hover(selection, versions) ==
    IF \/ ~selection.ok
       \/ ~Description(selection.version, versions).some
       \/ ~Homepage(selection.version, versions).some
    THEN QueryPanic
    ELSE QueryAnswer("Some", FALSE, selection.version,
                     <<Description(selection.version, versions).val,
                       Homepage(selection.version, versions).val>>)

\* Lines 443-465; browser says whether webbrowser::open succeeds.
Definition(selection, versions, browser) ==
    IF ~selection.ok THEN QueryPanic
    ELSE IF selection.version.packagist_url.some
    THEN QueryAnswer("None", FALSE, selection.version,
                     IF browser THEN <<selection.version.packagist_url.val>> ELSE <<>>)
    ELSE IF ~Latest(versions).version.packagist_url.some THEN QueryPanic
    ELSE QueryAnswer("None", ~browser, selection.version,
                     IF browser THEN <<Latest(versions).version.packagist_url.val>> ELSE <<>>)

\* Lines 259-389; slot is the entry under "data", responses the registry's
\* answer per name.
on_hover(slot, line, responses) ==
    IF ~slot.present THEN QueryAnswer("None", FALSE, NoPackageVersion, <<>>)
    ELSE IF line \notin DOMAIN slot.data.dependencies_by_line
    THEN QueryAnswer("None", TRUE, NoPackageVersion, <<>>)
    ELSE CASE PackageInfo(responses[slot.data.dependencies_by_line[line]]) = "panic" ->
                QueryPanic
           [] PackageInfo(responses[slot.data.dependencies_by_line[line]]) = "none" ->
                QueryAnswer("None", TRUE, NoPackageVersion, <<>>)
           [] OTHER ->
                HoverRange(
                    Hover(SelectVersion("hover", slot.data.lock,
                                        slot.data.dependencies_by_line[line],
                                        PackageVersions(
                                            slot.data.dependencies_by_line[line],
                                            responses[slot.data.dependencies_by_line[line]].items)),
                          PackageVersions(slot.data.dependencies_by_line[line],
                                          responses[slot.data.dependencies_by_line[line]].items)),
                    line)

\* Lines 391-488.
goto_definition(slot, line, responses, browser) ==
    IF ~slot.present THEN QueryAnswer("None", FALSE, NoPackageVersion, <<>>)
    ELSE IF line \notin DOMAIN slot.data.dependencies_by_line
    THEN QueryAnswer("None", TRUE, NoPackageVersion, <<>>)
    ELSE CASE PackageInfo(responses[slot.data.dependencies_by_line[line]]) = "panic" ->
                QueryPanic
           [] PackageInfo(responses[slot.data.dependencies_by_line[line]]) = "none" ->
                QueryAnswer("None", TRUE, NoPackageVersion, <<>>)
           [] OTHER ->
                Definition(SelectVersion("goto_definition", slot.data.lock,
                                         slot.data.dependencies_by_line[line],
                                         PackageVersions(
                                             slot.data.dependencies_by_line[line],
                                             responses[slot.data.dependencies_by_line[line]].items)),
                           PackageVersions(slot.data.dependencies_by_line[line],
                                           responses[slot.data.dependencies_by_line[line]].items),
                           browser)

(***************************************************************************)
(* main.rs: Backend::on_code_action                                        *)
(***************************************************************************)

\* Lines 511-515 and 519-523.
Command(command, arguments) == [command |-> command, arguments |-> arguments]

\* Error::method_not_found().
MethodNotFound == [ok |-> FALSE, commands |-> <<>>]

\* Lines 489-534; slot is the entry under "data".
on_code_action(slot, range_start_line, range_end_line) ==
    IF ~slot.present THEN MethodNotFound
    ELSE IF range_start_line # range_end_line THEN MethodNotFound
    ELSE IF range_start_line \notin DOMAIN slot.data.dependencies_by_line THEN MethodNotFound
    ELSE IF ~slot.data.lock.some
    THEN [ok |-> TRUE, commands |-> <<Command("install", <<>>)>>]
    ELSE [ok |-> TRUE,
          commands |->
              <<Command("update", <<slot.data.dependencies_by_line[range_start_line]>>)>>]

\* The manifests and lock files of the behaviours with requests.
QueryDocs == {DocBoth, DocDevOnly}

QueryLocks == {LockMissing, LockPlain}

QueryInit ==
    /\ ServerInit
    /\ disk.doc \in QueryDocs
    /\ lock_file \in QueryLocks
    /\ call = NoCall
    /\ result = Pending

\* Saves, edits and requests, in any interleaving of their steps.
QueryNext ==
    \/ \E uri \in UriPool :
           \E require_order \in Orders(Decode(disk.doc, REQUIRE)) :
               \E dev_order \in Orders(Decode(disk.doc, REQUIRE_DEV)) :
                   DidSave(uri, require_order, dev_order)
    \/ \E i \in 1..Len(saves) :
           \E completed \in SettlingOrders(Len(SavedDependencies(saves[i].composer_file))) :
               SaveFinish(i, completed)
    \/ \E d \in QueryDocs : EditManifest(d)
    \/ \E l \in QueryLocks : ChangeLock(l)
    \/ \E kind \in QueryKinds : \E line \in QueryLines : QueryStart(kind, line)
    \/ QueryFinish

QuerySpec == QueryInit /\ [][QueryNext]_vars

Next ==
    \/ \E uri \in UriPool :
           \E require_order \in Orders(Decode(disk.doc, REQUIRE)) :
               \E dev_order \in Orders(Decode(disk.doc, REQUIRE_DEV)) :
                   DidSave(uri, require_order, dev_order)
    \/ \E i \in 1..Len(saves) :
           \E completed \in SettlingOrders(Len(SavedDependencies(saves[i].composer_file))) :
               SaveFinish(i, completed)
    \/ \E d \in DocPool : EditManifest(d)
    \/ \E l \in LockPool : ChangeLock(l)

Spec == Init /\ [][Next]_vars

(***************************************************************************)
(* main.rs: Backend::on_execute_command                                    *)
(***************************************************************************)

\* Ok(None), with the message shown to the user if there is one.
OkNone(message) == [tag |-> "Ok", message |-> message]

\* Err(Error::new(ServerError(400))) and Err(Error::method_not_found()).
ExecuteErr(code, message) == [tag |-> code, message |-> message]

\* A failed unwrap() or expect().
ExecutePanic == [tag |-> "Panic", message |-> "none"]

\* Lines 560-588 and 601-629: what the composer process gave.  process is
\* "spawn_error" (the process cannot be run), "failed" (exit status not 0),
\* "not_utf8" (stderr is no UTF-8), "unresolved" (stderr names the
\* requirements that cannot be resolved) or "done".
ProcessOutcome(process, done_message) ==
    CASE process = "spawn_error" -> ExecutePanic
      [] process = "failed" -> ExecuteErr("ServerError(400)", "Composer command failed.")
      [] process = "not_utf8" -> ExecuteErr("ServerError(400)", "none")
      [] process = "unresolved" -> OkNone("Composer dependencies could not be resolved.")
      [] OTHER -> OkNone(done_message)

\* Lines 546-558: the update command wants its first argument as a string.
UpdateCommand(arguments, process) ==
    IF Len(arguments) <= 0 THEN OkNone("none")
    ELSE IF arguments[1].kind # "string" THEN ExecutePanic
    ELSE ProcessOutcome(process, "Composer package was updated.")

\* on_execute_command without the contains_key() of lines 537-539: the
\* unwrap() of line 541 fails on an empty slot.
on_execute_command_unchecked(slot, command, arguments, process) ==
    CASE ~slot.present -> ExecutePanic
      [] command = "update" -> UpdateCommand(arguments, process)
      [] command = "install" -> ProcessOutcome(process, "Composer packages were installed.")
      [] OTHER -> ExecuteErr("MethodNotFound", "none")

\* Lines 536-633; slot is the entry under "data".
on_execute_command(slot, command, arguments, process) ==
    IF ~slot.present THEN OkNone("none")
    ELSE CASE command = "update" -> UpdateCommand(arguments, process)
           [] command = "install" ->
                ProcessOutcome(process, "Composer packages were installed.")
           [] OTHER -> ExecuteErr("MethodNotFound", "none")

\* Lines 81-83: a code-action request is answered from the entry under
\* "data"; the handler writes to no map of the Backend.
CodeActionRequest(range_start_line, range_end_line) ==
    /\ ~crashed
    /\ ~hung
    /\ result' = [tag |-> "Answered", kind |-> "code_action",
                  answer |-> on_code_action(composer_file, range_start_line, range_end_line)]
    /\ UNCHANGED <<call, server_vars>>

\* Lines 157-159: an execute-command request likewise.  A failed expect()
\* or unwrap() ends the server.
ExecuteCommandRequest(command, arguments, process) ==
    /\ ~crashed
    /\ ~hung
    /\ result' = [tag |-> "Answered", kind |-> "execute_command",
                  answer |-> on_execute_command(composer_file, command, arguments, process)]
    /\ crashed' = (on_execute_command(composer_file, command, arguments, process).tag = "Panic")
    /\ UNCHANGED <<disk, lock_file, registry, composer_file, saves, published, query, hung,
                   call,
                   packagist_packages, buffer>>

(***************************************************************************)
(* main.rs: initialized, on_change and completion                          *)
(***************************************************************************)

\* Lines 65-79, after the await of the package list: the list is stored
\* under "data".
Initialized(all_packages) ==
    /\ ~crashed
    /\ ~hung
    /\ packagist_packages' = [present |-> TRUE, data |-> all_packages]
    /\ UNCHANGED <<disk, lock_file, registry, composer_file, saves, published, crashed, query,
                   hung, buffer, call, result>>

\* Line 165 and 172, ropey::Rope::lines: the text cut after each line
\* break; what follows the last line break is a line too.
RECURSIVE RopeLines(_)
RopeLines(text) ==
    IF \E i \in 1..Len(text) : text[i] = "\n"
    THEN LET break == CHOOSE i \in 1..Len(text) :
                          text[i] = "\n" /\ \A j \in 1..(i - 1) : text[j] # "\n"
         IN  <<Take(text, break)>> \o RopeLines(Drop(text, break))
    ELSE <<text>>

\* Lines 171-175: the lines inserted under their numbers, from 0.
RECURSIVE InsertBuffer(_, _, _)
InsertBuffer(map, lines, line_num) ==
    IF Len(lines) = 0 THEN map
    ELSE InsertBuffer((line_num :> Head(lines)) @@ map, Tail(lines), line_num + 1)

\* Lines 163-176: [ok, buffer]; ok is FALSE when content_changes[0] is out
\* of bounds.
on_change(content_changes) ==
    IF Len(content_changes) = 0 THEN [ok |-> FALSE, buffer |-> EmptyMap]
    ELSE [ok |-> TRUE, buffer |-> InsertBuffer(EmptyMap, RopeLines(content_changes[1]), 0)]

\* Lines 101-103: a change notification replaces the buffer.
DidChange(content_changes) ==
    /\ ~crashed
    /\ ~hung
    /\ buffer' = IF on_change(content_changes).ok THEN on_change(content_changes).buffer
                 ELSE buffer
    /\ crashed' = ~on_change(content_changes).ok
    /\ UNCHANGED <<disk, lock_file, registry, composer_file, saves, published, query, hung,
                   packagist_packages, call, result>>

\* str::rfind: the last position of the character, 0 for None.
RFind(s, c) ==
    IF \E i \in 1..Len(s) : s[i] = c
    THEN CHOOSE i \in 1..Len(s) : s[i] = c /\ \A j \in (i + 1)..Len(s) : s[j] # c
    ELSE 0

\* Lines 123-127: the text from the last quote on, without spaces, quotes
\* and line breaks.
PartialCompletion(line_text, start_pos) ==
    Remove(Remove(Remove(SubSeq(line_text, start_pos, Len(line_text)), " "), Q), "\n")

\* Ok(None), Ok(Some(items)) and a failed unwrap().
CompletionNone == [tag |-> "None", items |-> <<>>]

CompletionSome(items) == [tag |-> "Some", items |-> items]

CompletionPanic == [tag |-> "Panic", items |-> <<>>]

\* Lines 112-155; packages is the entry under "data" of packagist_packages,
\* document the buffer.
completion(packages, document, line) ==
    IF ~packages.present THEN CompletionNone
    ELSE IF line \notin DOMAIN document THEN CompletionPanic
    ELSE IF RFind(document[line], Q) = 0 THEN CompletionNone
    ELSE IF Len(PartialCompletion(document[line], RFind(document[line], Q))) >= 2
    THEN CompletionSome(
             SelectSeq(packages.data,
                       LAMBDA name :
                           StartsWith(name, PartialCompletion(document[line],
                                                              RFind(document[line], Q)))))
    ELSE CompletionNone

\* Lines 112-155: a completion request; a failed unwrap() ends the server.
Completion(line) ==
    /\ ~crashed
    /\ ~hung
    /\ result' = [tag |-> "Answered", kind |-> "completion", line |-> line,
                  answer |-> completion(packagist_packages, buffer, line)]
    /\ crashed' = (completion(packagist_packages, buffer, line).tag = "Panic")
    /\ UNCHANGED <<disk, lock_file, registry, composer_file, saves, published, query, hung,
                   packagist_packages, buffer, call>>

(***************************************************************************)
(* The four requests next to saves                                         *)
(***************************************************************************)

RequestInit ==
    /\ disk = [exists |-> TRUE, doc |-> DocBoth]
    /\ lock_file \in QueryLocks
    /\ registry = RegistryFull
    /\ composer_file = [present |-> FALSE, data |-> NoFile]
    /\ saves = <<>>
    /\ published = [any |-> FALSE, by |-> 0, diagnostics |-> <<>>]
    /\ crashed = FALSE
    /\ query = NoQuery
    /\ hung = FALSE
    /\ packagist_packages = NoPackages
    /\ buffer = EmptyMap
    /\ call = NoCall
    /\ result = Pending

\* The commands a client sends, with their arguments: those of
\* on_code_action, one unknown command, and an argument that is no string.
CommandNames == {"update", "install", "outdated"}

ArgumentLists == {<<>>, <<[kind |-> "string", val |-> PkgA]>>, <<[kind |-> "number", val |-> <<>>]>>}

ProcessOutcomes == {"spawn_error", "failed", "not_utf8", "unresolved", "done"}

RequestNext ==
    \/ \E uri \in UriPool :
           \E require_order \in Orders(Decode(disk.doc, REQUIRE)) :
               \E dev_order \in Orders(Decode(disk.doc, REQUIRE_DEV)) :
                   DidSave(uri, require_order, dev_order)
    \/ \E i \in 1..Len(saves) :
           \E completed \in SettlingOrders(Len(SavedDependencies(saves[i].composer_file))) :
               SaveFinish(i, completed)
    \/ \E kind \in QueryKinds : \E line \in QueryLines : QueryStart(kind, line)
    \/ QueryFinish
    \/ \E line \in QueryLines : \E end \in {line, line + 1} : CodeActionRequest(line, end)
    \/ \E command \in CommandNames : \E arguments \in ArgumentLists :
           \E process \in ProcessOutcomes :
               ExecuteCommandRequest(command, arguments, process)

RequestSpec == RequestInit /\ [][RequestNext]_vars

(***************************************************************************)
(* Completion next to change notifications                                 *)
(***************************************************************************)

CompletionInit ==
    /\ disk = [exists |-> TRUE, doc |-> DocBoth]
    /\ lock_file = LockMissing
    /\ registry = RegistryFull
    /\ composer_file = [present |-> FALSE, data |-> NoFile]
    /\ saves = <<>>
    /\ published = [any |-> FALSE, by |-> 0, diagnostics |-> <<>>]
    /\ crashed = FALSE
    /\ query = NoQuery
    /\ hung = FALSE
    /\ packagist_packages = NoPackages
    /\ buffer = EmptyMap
    /\ call = NoCall
    /\ result = Pending

\* The package lists the registry may give.
PackageLists == {<<PkgA, PkgB, PkgD>>, <<>>}

\* Texts of the document while a name is typed: one line, and two lines
\* whose second has one or two characters after its quote.
TextPool ==
    {<<"{">>,
     <<"{", "\n", " ", Q, "a">>,
     <<"{", "\n", " ", Q, "a", "/">>,
     <<"{", "\n", " ", Q, "d", "/", "\n">>}

\* The content changes of a notification: none, or the full text.
ChangePool == {<<>>} \cup {<<text>> : text \in TextPool}

\* The lines a completion is asked for.
CompletionLines == 0..2

CompletionNext ==
    \/ \E all_packages \in PackageLists : Initialized(all_packages)
    \/ \E content_changes \in ChangePool : DidChange(content_changes)
    \/ \E line \in CompletionLines : Completion(line)

CompletionSpec == CompletionInit /\ [][CompletionNext]_vars

(***************************************************************************)
(* check_for_package_update on its own                                     *)
(***************************************************************************)

ResolverInit ==
    /\ disk = [exists |-> TRUE, doc |-> DocBoth]
    /\ lock_file = LockMissing
    /\ registry = RegistryFull
    /\ composer_file = [present |-> FALSE, data |-> NoFile]
    /\ saves = <<>>
    /\ published = [any |-> FALSE, by |-> 0, diagnostics |-> <<>>]
    /\ crashed = FALSE
    /\ query = NoQuery
    /\ hung = FALSE
    /\ packagist_packages = NoPackages
    /\ buffer = EmptyMap
    /\ call \in {[package |-> [name |-> <<"T", "e", "s", "t">>, versions |-> v],
                  constraint |-> c, installed |-> i] :
                     v \in ReleaseLists, c \in ConstraintPool, i \in InstalledPool}
    /\ result = Pending

Resolve ==
    /\ result = Pending
    /\ result' = check_for_package_update(call.package, call.constraint, call.installed)
    /\ UNCHANGED <<call, server_vars>>

ResolverNext == Resolve

ResolverSpec == ResolverInit /\ [][ResolverNext]_vars

(***************************************************************************)
(* ComposerFile::parse_from_path on its own                                *)
(***************************************************************************)

ParserCalls ==
    {[filepath |-> uri, file |-> [exists |-> TRUE, doc |-> doc], lock_file |-> l,
      require_order |-> ro, dev_order |-> do] :
         uri \in UriPool, doc \in ParserDocs, l \in {LockMissing, LockPlain},
         ro \in UNION {Orders(Decode(d, REQUIRE)) : d \in ParserDocs},
         do \in UNION {Orders(Decode(d, REQUIRE_DEV)) : d \in ParserDocs}}

ParserInit ==
    /\ disk = [exists |-> TRUE, doc |-> DocBoth]
    /\ lock_file = LockMissing
    /\ registry = RegistryFull
    /\ composer_file = [present |-> FALSE, data |-> NoFile]
    /\ saves = <<>>
    /\ published = [any |-> FALSE, by |-> 0, diagnostics |-> <<>>]
    /\ crashed = FALSE
    /\ query = NoQuery
    /\ hung = FALSE
    /\ packagist_packages = NoPackages
    /\ buffer = EmptyMap
    /\ call \in {c \in ParserCalls :
                    /\ c.require_order \in Orders(Decode(c.file.doc, REQUIRE))
                    /\ c.dev_order \in Orders(Decode(c.file.doc, REQUIRE_DEV))}
    /\ result = Pending

Parse ==
    /\ result = Pending
    /\ result' = [tag |-> "Parsed",
                  parsed |-> parse_from_path(call.filepath, call.file, call.lock_file,
                                             call.require_order, call.dev_order)]
    /\ UNCHANGED <<call, server_vars>>

ParserNext == Parse

ParserSpec == ParserInit /\ [][ParserNext]_vars

(***************************************************************************)
(* parse_lock_file on its own                                              *)
(***************************************************************************)

\* The items of a packages array: entries, two of them of one package, an
\* item that is no object, one without a name and one without a version.
LockItems ==
    {Entry(PkgA, <<"v", "2", ".", "1", ".", "0">>), Entry(PkgA, V3("2", "2", "1")),
     Entry(PkgB, V3("1", "9", "0")), Entry(PkgB, <<"d", "e", "v", "-", "m">>),
     [shape |-> "not_object", name |-> <<>>, version |-> <<>>],
     [shape |-> "no_name", name |-> <<>>, version |-> V3("1", "9", "0")],
     [shape |-> "no_version", name |-> PkgD, version |-> <<>>]}

\* The longest packages array.
MaxLockPackages == 2

\* The states of the lock file.
LockFiles ==
    {[kind |-> k, packages |-> <<>>] :
        k \in {"missing", "not_json", "not_object", "no_packages", "not_array"}}
    \cup {[kind |-> "packages", packages |-> p] : p \in SeqsUpTo(LockItems, MaxLockPackages)}

LockInit ==
    /\ disk = [exists |-> TRUE, doc |-> DocBoth]
    /\ lock_file = LockMissing
    /\ registry = RegistryFull
    /\ composer_file = [present |-> FALSE, data |-> NoFile]
    /\ saves = <<>>
    /\ published = [any |-> FALSE, by |-> 0, diagnostics |-> <<>>]
    /\ crashed = FALSE
    /\ query = NoQuery
    /\ hung = FALSE
    /\ packagist_packages = NoPackages
    /\ buffer = EmptyMap
    /\ call \in LockFiles
    /\ result = Pending

ParseLock ==
    /\ result = Pending
    /\ result' = [tag |-> "Locked", parsed |-> parse_lock_file(call)]
    /\ UNCHANGED <<call, server_vars>>

LockNext == ParseLock

LockSpec == LockInit /\ [][LockNext]_vars

(***************************************************************************)
(* on_code_action on its own                                               *)
(***************************************************************************)

ActionDocs == {DocBoth, DocDevOnly, DocSubstring, DocEscaped}

\* The lines of a request's range.
ActionLines == 0..6

\* A request: the manifest and lock last saved, if any save there was, and
\* the range.
ActionCalls ==
    {[saved |-> saved, file |-> [exists |-> TRUE, doc |-> doc], lock_file |-> l,
      require_order |-> ro, dev_order |-> do, start |-> start, end |-> end] :
         saved \in BOOLEAN, doc \in ActionDocs, l \in {LockMissing, LockPlain},
         ro \in UNION {Orders(Decode(d, REQUIRE)) : d \in ActionDocs},
         do \in UNION {Orders(Decode(d, REQUIRE_DEV)) : d \in ActionDocs},
         start \in ActionLines, end \in ActionLines}

ActionInit ==
    /\ disk = [exists |-> TRUE, doc |-> DocBoth]
    /\ lock_file = LockMissing
    /\ registry = RegistryFull
    /\ composer_file = [present |-> FALSE, data |-> NoFile]
    /\ saves = <<>>
    /\ published = [any |-> FALSE, by |-> 0, diagnostics |-> <<>>]
    /\ crashed = FALSE
    /\ query = NoQuery
    /\ hung = FALSE
    /\ packagist_packages = NoPackages
    /\ buffer = EmptyMap
    /\ call \in {c \in ActionCalls :
                    /\ c.require_order \in Orders(Decode(c.file.doc, REQUIRE))
                    /\ c.dev_order \in Orders(Decode(c.file.doc, REQUIRE_DEV))
                    /\ c.end \in {c.start, c.start + 1}}
    /\ result = Pending

\* The entry under "data" when the request arrives.
ActionSlot(c) ==
    IF c.saved
    THEN StoreSnapshot([present |-> FALSE, data |-> NoFile],
                       parse_from_path(ManifestUri, c.file, c.lock_file,
                                       c.require_order, c.dev_order).file)
    ELSE [present |-> FALSE, data |-> NoFile]

CodeAction ==
    /\ result = Pending
    /\ result' = [tag |-> "Answered",
                  answer |-> on_code_action(ActionSlot(call), call.start, call.end)]
    /\ UNCHANGED <<call, server_vars>>

ActionNext == CodeAction

ActionSpec == ActionInit /\ [][ActionNext]_vars

(***************************************************************************)
(* on_hover and goto_definition on their own                               *)
(***************************************************************************)

\* An object of the registry's list with a version and nothing else.
Bare(version) == [shape |-> "bare", version |-> version]

\* Versions that differ in where their dots are.
V_1_10_0 == <<"1", ".", "1", "0", ".", "0">>

V_11_0_0 == <<"1", "1", ".", "0", ".", "0">>

HoverItems ==
    {Release(V_1_10_0), Release(V_11_0_0), Release(V3("2", "1", "0")), Bare(V3("2", "1", "0")),
     Malformed}

\* The longest list of releases of an answer.
MaxHoverReleases == 2

HoverAnswers ==
    {Answer(k) : k \in {"send_error", "body_error", "not_json", "not_object", "no_packages",
                        "no_entry", "not_array"}}
    \cup {Releases(items) : items \in SeqsUpTo(HoverItems, MaxHoverReleases)}

\* Lock files with an entry for a/a and none for a/b.
LockDotted == [kind |-> "packages", packages |-> <<Entry(PkgA, <<"v">> \o V_1_10_0)>>]

LockExact == [kind |-> "packages", packages |-> <<Entry(PkgA, V3("2", "1", "0"))>>]

HoverLocks == {LockMissing, LockDotted, LockExact}

\* Line 0 holds no dependency, lines 2 and 3 hold a/a and a/b.
HoverLines == {0, 2, 3}

\* A request: its kind and line, the lock last saved with the manifest, the
\* registry's answer and whether the browser opens.
HoverCalls ==
    {[kind |-> kind, line |-> line, saved |-> saved, lock_file |-> l, response |-> response,
      browser |-> browser] :
         kind \in QueryKinds, line \in HoverLines, saved \in BOOLEAN, l \in HoverLocks,
         response \in HoverAnswers, browser \in BOOLEAN}

HoverInit ==
    /\ disk = [exists |-> TRUE, doc |-> DocBoth]
    /\ lock_file = LockMissing
    /\ registry = RegistryFull
    /\ composer_file = [present |-> FALSE, data |-> NoFile]
    /\ saves = <<>>
    /\ published = [any |-> FALSE, by |-> 0, diagnostics |-> <<>>]
    /\ crashed = FALSE
    /\ query = NoQuery
    /\ hung = FALSE
    /\ packagist_packages = NoPackages
    /\ buffer = EmptyMap
    /\ call \in {c \in HoverCalls : c.kind = "hover" => c.browser}
    /\ result = Pending

\* The entry under "data" when the request arrives.
HoverSlot(c) ==
    IF c.saved
    THEN StoreSnapshot([present |-> FALSE, data |-> NoFile],
                       parse_from_path(ManifestUri, [exists |-> TRUE, doc |-> DocBoth],
                                       c.lock_file,
                                       \* the line index is the same in every order
                                       CHOOSE o \in Orders(Decode(DocBoth, REQUIRE)) : TRUE,
                                       CHOOSE o \in Orders(Decode(DocBoth, REQUIRE_DEV)) : TRUE).file)
    ELSE [present |-> FALSE, data |-> NoFile]

\* The registry answers every name alike.
HoverResponses(c) == [n \in Names |-> c.response]

HoverQuery ==
    /\ result = Pending
    /\ call.kind = "hover"
    /\ result' = [tag |-> "Answered",
                  answer |-> on_hover(HoverSlot(call), call.line, HoverResponses(call))]
    /\ UNCHANGED <<call, server_vars>>

DefinitionQuery ==
    /\ result = Pending
    /\ call.kind = "goto_definition"
    /\ result' = [tag |-> "Answered",
                  answer |-> goto_definition(HoverSlot(call), call.line, HoverResponses(call),
                                             call.browser)]
    /\ UNCHANGED <<call, server_vars>>

HoverNext == HoverQuery \/ DefinitionQuery

HoverSpec == HoverInit /\ [][HoverNext]_vars

(***************************************************************************)
(* get_packages_info and the loop of on_save on their own                  *)
(***************************************************************************)

BatchInit ==
    /\ disk = [exists |-> TRUE, doc |-> DocBoth]
    /\ lock_file = LockMissing
    /\ registry = RegistryFull
    /\ composer_file = [present |-> FALSE, data |-> NoFile]
    /\ saves = <<>>
    /\ published = [any |-> FALSE, by |-> 0, diagnostics |-> <<>>]
    /\ crashed = FALSE
    /\ query = NoQuery
    /\ hung = FALSE
    /\ packagist_packages = NoPackages
    /\ buffer = EmptyMap
    /\ call \in {[packages |-> list, reg |-> reg, lock |-> NoLock, completed |-> completed] :
                     list \in BatchLists, reg \in AnswerMaps,
                     completed \in UNION {SettlingOrders(n) : n \in 1..3}}
    /\ Len(call.completed) = Len(call.packages)
    /\ result = Pending

\* main.rs 190-252: what on_save has when its loop ends.
BatchOutcome(packages, lock, update_data) ==
    [tag |-> "Fetched",
     update_data |-> update_data,
     diagnostics |-> IF update_data.ok
                     THEN Diagnostics(packages, lock, update_data.hashmap)
                     ELSE [ok |-> FALSE, diagnostics |-> <<>>]]

Fetch ==
    /\ result = Pending
    /\ result' = BatchOutcome(call.packages, call.lock,
                              get_packages_info(call.packages, call.reg, call.completed))
    /\ UNCHANGED <<call, server_vars>>

BatchNext == Fetch

BatchSpec == BatchInit /\ [][BatchNext]_vars

(***************************************************************************)
(* Properties of check_for_package_update (ResolverSpec)                   *)
(***************************************************************************)

Done == result # Pending

\* The release string parses as a semantic version that satisfies the
\* constraint.
Satisfies(version, constraint) ==
    /\ VersionReqParse(constraint).ok
    /\ VersionParse(version).ok
    /\ Matches(VersionReqParse(constraint).comparators, VersionParse(version))

\* Semantic-version precedence of two version strings.
Precedes(a, b) == VersionCmp(VersionParse(a), VersionParse(b)) < 0

\* The positions of the releases that satisfy the call's constraint.
SatisfyingIndexes ==
    {k \in 1..Len(call.package.versions) :
        Satisfies(call.package.versions[k], call.constraint)}

\* Those among them strictly above the installed version.
NewerIndexes ==
    {k \in SatisfyingIndexes : Precedes(call.installed, call.package.versions[k])}

InstalledIsVersion == call.installed # <<>> /\ VersionParse(call.installed).ok

\* C1: with an installed version v, the result is the release of highest
\* precedence among those that satisfy the constraint and are strictly
\* greater than v, and None exactly when there is none.
C1_HighestNewerRelease ==
    (Done /\ InstalledIsVersion /\ result.tag # "Panic") =>
        IF NewerIndexes = {}
        THEN result = NoneResult
        ELSE /\ result.tag = "Some"
             /\ \E k \in NewerIndexes :
                    /\ result.ver = call.package.versions[k]
                    /\ \A j \in NewerIndexes :
                           ~Precedes(call.package.versions[k], call.package.versions[j])

\* C2: a matching release is taken as newer than the installed version
\* exactly when it is strictly greater in semantic-version precedence.
C2_NewerIffGreater ==
    (Done /\ InstalledIsVersion /\ VersionReqParse(call.constraint).ok) =>
        LET matching_versions ==
                MatchingVersions(call.package.versions,
                                 VersionReqParse(call.constraint).comparators)
            newer == NewerVersions(matching_versions, call.installed)
        IN  newer.ok =>
                \A k \in 1..Len(matching_versions) :
                    (\E j \in 1..Len(newer.matching) : newer.matching[j] = matching_versions[k])
                        <=> Precedes(call.installed, matching_versions[k])

\* C3: without an installed version the result is the first release, in
\* input order, that parses and satisfies the constraint, and None when no
\* release satisfies it.
C3_FirstMatchInInputOrder ==
    (Done /\ call.installed = <<>>) =>
        IF SatisfyingIndexes = {}
        THEN result = NoneResult
        ELSE result = SomeResult(call.package.versions[
                          CHOOSE k \in SatisfyingIndexes : \A j \in SatisfyingIndexes : k <= j])

\* A call in which the first release is passed over and the second returned.
C3_Witness ==
    /\ Done
    /\ call.installed = <<>>
    /\ Len(call.package.versions) = 2
    /\ ~Satisfies(call.package.versions[1], call.constraint)
    /\ result = SomeResult(call.package.versions[2])

MockCase(constraint) ==
    Done /\ call.package.versions = MockVersions /\ call.installed = <<>>
         /\ call.constraint = constraint

\* C4: for the mock's releases and no installed version the results are
\* 2.2.1 for >2.0, >=2.0 and *, 2.0.0 for <=2.0, 2.1.1 for <=2.1, 1.9.0 for
\* ^1.0 and 1.8.1 for ~1.8, each the newest release that satisfies the
\* constraint.
C4_MockResults ==
    /\ MockCase(C_Gt20) => result = SomeResult(V3("2", "2", "1"))
    /\ MockCase(C_Ge20) => result = SomeResult(V3("2", "2", "1"))
    /\ MockCase(C_Star) => result = SomeResult(V3("2", "2", "1"))
    /\ MockCase(C_Le20) => result = SomeResult(V3("2", "0", "0"))
    /\ MockCase(C_Le21) => result = SomeResult(V3("2", "1", "1"))
    /\ MockCase(C_Caret10) => result = SomeResult(V3("1", "9", "0"))
    /\ MockCase(C_Tilde18) => result = SomeResult(V3("1", "8", "1"))
    /\ \A c \in {C_Gt20, C_Ge20, C_Star, C_Le20, C_Le21, C_Caret10, C_Tilde18} :
           MockCase(c) =>
               /\ result.tag = "Some"
               /\ \A k \in SatisfyingIndexes : ~Precedes(result.ver, MockVersions[k])

C4_Witness == MockCase(C_Tilde18) /\ result = SomeResult(V3("1", "8", "1"))

\* C5: a constraint with "||" yields an update whenever a release newer
\* than the installed version satisfies one of its alternatives.
C5_OrIsUnion ==
    (Done /\ Contains(call.constraint, <<"|", "|">>)
          /\ (call.installed = <<>> \/ VersionParse(call.installed).ok)) =>
        ((\E n \in 1..Len(SplitOr(call.constraint)) :
              \E k \in 1..Len(call.package.versions) :
                  /\ Satisfies(call.package.versions[k], SplitOr(call.constraint)[n])
                  /\ (call.installed = <<>>
                         \/ Precedes(call.installed, call.package.versions[k])))
            => result.tag = "Some")

\* C6: the call returns Some or None for every input; it never aborts.
C6_NeverAborts == Done => result.tag \in {"Some", "None"}

\* C7: a constraint that does not parse as a version range gives None,
\* whatever the releases and the installed version.
C7_UnparsableConstraintIsNone ==
    (Done /\ ~VersionReqParse(call.constraint).ok) => result = NoneResult

\* An unparsable constraint met with releases and a branch name installed.
C7_Witness ==
    /\ Done
    /\ call.constraint = C_Dev
    /\ Len(call.package.versions) > 0
    /\ call.installed = <<"d", "e", "-", "m">>
    /\ result = NoneResult

\* C34: a version that check_for_package_update returns, with or without
\* an installed version, is one of the releases passed in, and one that
\* parses as a semantic version and satisfies the constraint.
C34_ResultIsSatisfyingRelease ==
    (Done /\ result.tag = "Some") =>
        \E k \in SatisfyingIndexes : call.package.versions[k] = result.ver

\* With a version installed, the second release is returned and the first,
\* which satisfies the constraint too, is not.
C34_Witness ==
    /\ Done
    /\ call.installed # <<>>
    /\ Len(call.package.versions) = 2
    /\ SatisfyingIndexes = {1, 2}
    /\ call.package.versions[1] # call.package.versions[2]
    /\ result = SomeResult(call.package.versions[2])

(***************************************************************************)
(* Properties of on_save (Spec)                                            *)
(***************************************************************************)

\* What the registry holds for a package name: the releases of its answer.
RegistryData(name) ==
    LET found == Lookup(name, registry[name])
    IN  IF name \in DOMAIN registry /\ found.status = "ok" /\ found.package.name = name
        THEN Some(found.package)
        ELSE NoneOpt

\* The update the resolver returns for a dependency of a parsed manifest,
\* None for a dependency without a name or without registry data.
ResolverUpdate(item, file) ==
    IF item.name = <<>> \/ ~RegistryData(item.name).some THEN NoneResult
    ELSE check_for_package_update(RegistryData(item.name).val,
                                  Remove(item.version, Q),
                                  composer_lock_version(file.lock, item.name))

\* The elements of a sequence.
Items(seq) == {seq[n] : n \in 1..Len(seq)}

Finished(i) == i \in 1..Len(saves) /\ saves[i].pc = "done"

\* C8: a finished save has a diagnostic for each dependency of require and
\* of require-dev that the registry has a newer release for.
C8_RequireDevIsProcessed ==
    \A i \in 1..Len(saves) :
        Finished(i) =>
            \A item \in Items(saves[i].composer_file.dependencies)
                            \cup Items(saves[i].composer_file.dev_dependencies) :
                ResolverUpdate(item, saves[i].composer_file).tag = "Some" =>
                    \E n \in 1..Len(saves[i].diagnostics) :
                        saves[i].diagnostics[n] =
                            Diagnostic(item, ResolverUpdate(item, saves[i].composer_file).ver)

\* The diagnostics of the require dependencies that have an update.
UpdateDiagnostics(file) ==
    LET updated == SelectSeq(file.dependencies,
                             LAMBDA item : ResolverUpdate(item, file).tag = "Some")
    IN  [n \in 1..Len(updated) |->
            Diagnostic(updated[n], ResolverUpdate(updated[n], file).ver)]

\* C9: a save that has parsed its manifest yields exactly one diagnostic for
\* each dependency the resolver returns an update for, and none for the
\* others.
C9_OneDiagnosticPerUpdate ==
    \A i \in 1..Len(saves) :
        (saves[i].pc \in {"done", "panicked"} /\ saves[i].composer_file # NoFile) =>
            saves[i].diagnostics = UpdateDiagnostics(saves[i].composer_file)

\* C10: the diagnostics last published are those computed from the manifest
\* the publishing save parsed; none is carried over from an earlier save.
C10_PublishedFromOwnManifest ==
    published.any =>
        /\ Finished(published.by)
        /\ published.diagnostics = UpdateDiagnostics(saves[published.by].composer_file)

\* Two finished saves of different manifests: the earlier one published
\* diagnostics, none of which is among those of the later one.
C10_Witness ==
    /\ published.any
    /\ \E i \in 1..Len(saves) :
           /\ i # published.by
           /\ Finished(i)
           /\ saves[i].composer_file.dependencies
                  # saves[published.by].composer_file.dependencies
           /\ saves[i].diagnostics # <<>>
           /\ \A n \in 1..Len(saves[i].diagnostics) :
                  \A m \in 1..Len(published.diagnostics) :
                      saves[i].diagnostics[n] # published.diagnostics[m]

\* The map get_packages_info returns to a save of the manifest.
SaveUpdateData(file) ==
    get_packages_info(SavedDependencies(file), registry,
                      [n \in 1..Len(SavedDependencies(file)) |-> n])

\* The lock of the manifest has no installed version for the dependency:
\* there is no lock, or the lock does not list the package.
NoInstalled(file, item) == ~file.lock.some \/ item.name \notin DOMAIN file.lock.versions

\* The dependencies of a save that reach the resolver without an installed
\* version.
UninstalledRequests(file) ==
    {item \in Items(SavedDependencies(file)) :
        /\ NoInstalled(file, item)
        /\ item.name # <<>>
        /\ item.name \in DOMAIN SaveUpdateData(file).hashmap}

\* The resolver called with no installed version.
NoInstalledUpdate(item, update_data) ==
    check_for_package_update(update_data[item.name], Remove(item.version, Q), <<>>)

FirstMatch(item, file) == NoInstalledUpdate(item, SaveUpdateData(file).hashmap)

\* C16: for a dependency without a lock file or without an entry in it the
\* save calls the resolver with no installed version, the call raises no
\* error and its update is reported; a save none of whose dependencies has
\* an installed version completes once its lookups have.
C16_NoLockNoInstalledVersion ==
    \A i \in 1..Len(saves) :
        (/\ saves[i].pc \in {"done", "panicked"}
         /\ saves[i].composer_file # NoFile
         /\ SaveUpdateData(saves[i].composer_file).ok) =>
            /\ \A item \in UninstalledRequests(saves[i].composer_file) :
                   /\ ItemUpdate(item, saves[i].composer_file.lock,
                                 SaveUpdateData(saves[i].composer_file).hashmap)
                          = FirstMatch(item, saves[i].composer_file)
                   /\ FirstMatch(item, saves[i].composer_file).tag # "Panic"
                   /\ (Finished(i) /\ FirstMatch(item, saves[i].composer_file).tag = "Some") =>
                          Diagnostic(item, FirstMatch(item, saves[i].composer_file).ver)
                              \in Items(saves[i].diagnostics)
            /\ (\A item \in Items(SavedDependencies(saves[i].composer_file)) :
                    NoInstalled(saves[i].composer_file, item)) => Finished(i)

\* A finished save without a lock file and a finished save whose lock does
\* not list a dependency, each with a diagnostic for such a dependency.
C16_Witness ==
    /\ \E i \in 1..Len(saves) :
           /\ Finished(i)
           /\ ~saves[i].composer_file.lock.some
           /\ \E item \in UninstalledRequests(saves[i].composer_file) :
                  FirstMatch(item, saves[i].composer_file).tag = "Some"
    /\ \E i \in 1..Len(saves) :
           /\ Finished(i)
           /\ saves[i].composer_file.lock.some
           /\ \E item \in UninstalledRequests(saves[i].composer_file) :
                  FirstMatch(item, saves[i].composer_file).tag = "Some"

\* The save has put its ComposerFile under "data".
Stored(i) ==
    /\ i \in 1..Len(saves)
    /\ saves[i].pc \in {"fetching", "done", "panicked"}
    /\ saves[i].composer_file # NoFile

\* The last save that has stored its ComposerFile.
LastStored == CHOOSE i \in 1..Len(saves) : Stored(i) /\ \A j \in (i + 1)..Len(saves) : ~Stored(j)

\* Every entry of the line index is the line and the name of a dependency
\* of the lists it is stored with.
IndexFromLists(file) ==
    \A l \in DOMAIN file.dependencies_by_line :
        \E d \in Items(file.dependencies) \cup Items(file.dev_dependencies) :
            d.line = l /\ d.name = file.dependencies_by_line[l]

\* C12: what is stored under "data" is, as a whole, the ComposerFile of one
\* parse, that of the last save that has stored one: its lists, its lock
\* and its line index; the index has no entry but those of its own lists.
C12_SnapshotOfOneParse ==
    /\ composer_file.present <=> \E i \in 1..Len(saves) : Stored(i)
    /\ composer_file.present =>
           /\ composer_file.data = saves[LastStored].composer_file
           /\ IndexFromLists(composer_file.data)

\* A second save has stored the parse of another manifest, and the index
\* of the first had a line the second has not.
C12_Witness ==
    /\ composer_file.present
    /\ \E i \in 1..Len(saves) :
           /\ Stored(i)
           /\ i < LastStored
           /\ saves[i].composer_file.dependencies # composer_file.data.dependencies
           /\ \E l \in DOMAIN saves[i].composer_file.dependencies_by_line :
                  l \notin DOMAIN composer_file.data.dependencies_by_line

\* C28: a save of a document that is not a manifest does not abort the
\* server; it leaves the entry under "data" as it is and publishes nothing.
C28_NonManifestSaveIsHarmless ==
    \A i \in 1..Len(saves) :
        ~EndsWith(saves[i].uri, COMPOSER_JSON) =>
            /\ saves[i].pc # "panicked"
            /\ ~Stored(i)
            /\ ~(published.any /\ published.by = i)

\* C32: when two saves overlap, then after both have finished the
\* diagnostics last published are those of the ComposerFile that is stored:
\* the diagnostics of the older save are not published after those of the
\* newer one.  The diagnostics are compared as sets, their order being that
\* in which the save's parse iterated the require map.
C32_PublishedMatchesStored ==
    (Len(saves) >= 2 /\ \A i \in 1..Len(saves) : Finished(i)) =>
        /\ published.any
        /\ Items(published.diagnostics) = Items(UpdateDiagnostics(composer_file.data))

(***************************************************************************)
(* Properties of on_hover and goto_definition (QuerySpec)                  *)
(***************************************************************************)

\* The request has read the entry under "data".
Observed(q) == q.pc \in {"waiting", "returned", "panicked"} /\ q.held # NoFile

\* What the request has read is what the save has stored: the name is that
\* of its line index, the lock that of the same ComposerFile.
ObservesSave(q, i) ==
    /\ Stored(i)
    /\ q.held = saves[i].composer_file
    /\ q.awaits = "registry" => q.name = saves[i].composer_file.dependencies_by_line[q.line]
    /\ (q.pc = "returned" /\ q.outcome = "some") => q.lock = saves[i].composer_file.lock

\* C11: the manifest data a hover or goto-definition request works with,
\* the line index before its await and the lock after it, is that of the
\* ComposerFile one save has stored, and no save replaces that entry while
\* the request waits; the registry data is that of the request's own
\* lookup, a Backend keeps none from a save.
C11_QueryObservesOneSnapshot ==
    Observed(query) =>
        /\ \E i \in 1..Len(saves) : ObservesSave(query, i)
        /\ query.pc = "waiting" => composer_file.data = query.held

\* A request has started and returned while the second save waited for its
\* lookups: what it has read is of that save, whose manifest and lock
\* differ from those of the save before.
C11_Witness ==
    /\ query.pc = "returned"
    /\ query.outcome = "some"
    /\ \E i \in 1..Len(saves) :
           /\ saves[i].pc = "fetching"
           /\ ObservesSave(query, i)
           /\ \E j \in 1..(i - 1) :
                  /\ Stored(j)
                  /\ saves[j].composer_file.dependencies # query.held.dependencies
                  /\ saves[j].composer_file.lock # query.lock

\* C30: a save that arrives while a hover or goto-definition request waits
\* for its registry response completes, and the request returns: no save
\* stays in remove("data") behind the entry the request holds.  A save that
\* is "blocked" has stopped the thread that would resume the request, so
\* neither of the two moves again.
C30_SaveNeverWaitsOnQuery ==
    \A i \in 1..Len(saves) : ~(saves[i].pc = "blocked" /\ Held(query))

\* A request begins in this step.
QueryBegins == query.pc # "waiting" /\ query' # query

\* C31: once a save has stored a ComposerFile, no step of a later save
\* leaves the slot under "data" empty, so that a request that checks and
\* reads it at any later moment finds an entry; a hover or goto-definition
\* request that begins then holds the entry that is stored.
C31_SlotNeverEmptied ==
    [][composer_file.present =>
           /\ composer_file'.present
           /\ QueryBegins => (query'.pc = "waiting" /\ query'.held = composer_file.data)]_vars

\* A request has begun while two saves overlap, after the second of them
\* replaced the entry of the first: it holds the entry of the second.
C31_Witness ==
    /\ Len(saves) = 2
    /\ saves[1].pc = "fetching"
    /\ saves[2].pc = "fetching"
    /\ saves[1].composer_file # saves[2].composer_file
    /\ query.pc = "waiting"
    /\ query.held = saves[2].composer_file

(***************************************************************************)
(* Properties of the requests next to saves (RequestSpec)                  *)
(***************************************************************************)

\* A code-action or execute-command request is answered in this step.
RequestAnswered(kind) == result' # result /\ result'.kind = kind

\* What the Backend stores: the entry under "data", and so also the saves
\* that have been made and what they have published.
Stores == <<composer_file, saves, published, crashed, hung>>

\* C35: before any save has stored a ComposerFile, a hover, a
\* goto-definition and an execute-command request return nothing, a
\* code-action request returns an error, and none of them changes what the
\* server stores.
C35_NothingBeforeFirstSave ==
    [][~composer_file.present =>
           /\ QueryBegins =>
                  /\ query'.pc = "returned"
                  /\ query'.outcome = "none"
                  /\ query'.held = NoFile
                  /\ Stores' = Stores
           /\ RequestAnswered("code_action") =>
                  /\ result'.answer = MethodNotFound
                  /\ Stores' = Stores
           /\ RequestAnswered("execute_command") =>
                  /\ result'.answer = OkNone("none")
                  /\ Stores' = Stores]_vars

\* No save has stored anything; a hover request has returned and an
\* execute-command request has been answered.
C35_Witness ==
    /\ ~composer_file.present
    /\ saves = <<>>
    /\ query.pc = "returned"
    /\ query.kind = "hover"
    /\ result.tag = "Answered"
    /\ result.kind = "execute_command"

(***************************************************************************)
(* Properties of completion (CompletionSpec)                               *)
(***************************************************************************)

\* C36: a completion request does not abort the server, in whatever order
\* the events come: not when the package list is loaded and no change
\* notification has arrived yet, and not for a line that the buffer built
\* from the last change notification does not have.
C36_CompletionNeverAborts ==
    (result.tag = "Answered" /\ result.kind = "completion") => result.answer.tag # "Panic"

(***************************************************************************)
(* Properties of parse_from_path (ParserSpec)                              *)
(***************************************************************************)

\* The call has returned a ComposerFile.
ParsedSome == result.tag = "Parsed" /\ result.parsed.ok /\ result.parsed.some

\* The 1-based lines of the entries of a block of the document.
BlockLines(doc, block) ==
    {j \in (KeyIndex(doc, block) + 1)..Len(doc) :
        /\ KeyIndex(doc, block) > 0
        /\ \A m \in (KeyIndex(doc, block) + 1)..j : doc[m].kind \in DepKinds}

\* The dependency list the parsed file has for a block.
BlockList(file, block) ==
    IF block = REQUIRE THEN file.dependencies ELSE file.dev_dependencies

\* The 1-based line d.line + 1 is where the block declares d.
OwnDeclaration(doc, block, d) ==
    /\ d.line + 1 \in BlockLines(doc, block)
    /\ doc[d.line + 1].name = d.name
    /\ doc[d.line + 1].version = d.version

\* C17: every dependency of a block has the 0-based line of its own
\* declaration, and the line index maps that line to its name; it never
\* has the line of a dependency that merely contains its name and
\* constraint.
C17_LineOfOwnDeclaration ==
    ParsedSome =>
        \A block \in {REQUIRE, REQUIRE_DEV} :
            \A d \in Items(BlockList(result.parsed.file, block)) :
                /\ OwnDeclaration(call.file.doc, block, d)
                /\ d.line \in DOMAIN result.parsed.file.dependencies_by_line
                /\ result.parsed.file.dependencies_by_line[d.line] = d.name

\* C18: the line found for a dependency of a block lies inside the block,
\* between the line of the block's key and the line that closes it.
C18_LineInsideBlock ==
    ParsedSome =>
        \A block \in {REQUIRE, REQUIRE_DEV} :
            \A d \in Items(BlockList(result.parsed.file, block)) :
                d.line + 1 \in BlockLines(call.file.doc, block)

\* C19: the line index has exactly one entry per dependency of the two
\* lists: it maps the line of each to its name and has no other entry.
C19_IndexMatchesLists ==
    ParsedSome =>
        LET file == result.parsed.file
            listed == Items(file.dependencies) \cup Items(file.dev_dependencies)
        IN  /\ \A d \in listed :
                   /\ d.line \in DOMAIN file.dependencies_by_line
                   /\ file.dependencies_by_line[d.line] = d.name
            /\ \A l \in DOMAIN file.dependencies_by_line :
                   \E d \in listed : d.line = l /\ d.name = file.dependencies_by_line[l]
            /\ Cardinality(DOMAIN file.dependencies_by_line)
                   = Len(file.dependencies) + Len(file.dev_dependencies)

\* How often the list has the declared name and constraint.
Occurrences(list, p) ==
    Cardinality({n \in 1..Len(list) : list[n].name = p.name /\ list[n].version = p.version})

\* A declared dependency whose line get_line_num does not find.
Unlocated(block, p) ==
    ~get_line_num(Lines(call.file.doc), block, p.name, p.version).some

\* C20: when the line of a declared dependency cannot be located the parse
\* succeeds all the same; that dependency is in no list and has no entry in
\* the line index, and every other declared dependency is exactly once in
\* the list of its block.
C20_UnlocatedIsDroppedAlone ==
    (result.tag = "Parsed" /\ EndsWith(call.filepath, COMPOSER_JSON)) =>
        /\ result.parsed.ok /\ result.parsed.some
        /\ \A block \in {REQUIRE, REQUIRE_DEV} :
               \A p \in Decode(call.file.doc, block) :
                   Occurrences(BlockList(result.parsed.file, block), p)
                       = IF Unlocated(block, p) THEN 0 ELSE 1
        /\ \A l \in DOMAIN result.parsed.file.dependencies_by_line :
               \E block \in {REQUIRE, REQUIRE_DEV} :
                   \E p \in Decode(call.file.doc, block) :
                       /\ p.name = result.parsed.file.dependencies_by_line[l]
                       /\ ~Unlocated(block, p)

\* The first dependency of require has no line; the second one is listed.
C20_Witness ==
    /\ ParsedSome
    /\ call.file.doc = DocUnlocated
    /\ call.require_order[1].name = PkgA
    /\ Unlocated(REQUIRE, call.require_order[1])
    /\ Len(result.parsed.file.dependencies) = 1
    /\ result.parsed.file.dependencies[1].name = PkgB
    /\ Len(result.parsed.file.dev_dependencies) = 1

\* The text of the document is JSON.
ValidJson(doc) == \A i \in 1..Len(doc) : doc[i].kind # "garbage"

\* The call has returned None.
ParsedNone == result.tag = "Parsed" /\ result.parsed.ok /\ ~result.parsed.some

\* C21: parse_from_path returns None exactly when the path does not end in
\* composer.json or the document is not JSON; for a JSON manifest it returns
\* a ComposerFile, with an empty list for a block the manifest has not.
C21_NoneIffNotAManifest ==
    result.tag = "Parsed" =>
        /\ ParsedNone <=>
               (~EndsWith(call.filepath, COMPOSER_JSON) \/ ~ValidJson(call.file.doc))
        /\ (EndsWith(call.filepath, COMPOSER_JSON) /\ ValidJson(call.file.doc)) =>
               /\ ParsedSome
               /\ KeyIndex(call.file.doc, REQUIRE) = 0 =>
                      result.parsed.file.dependencies = <<>>
               /\ KeyIndex(call.file.doc, REQUIRE_DEV) = 0 =>
                      result.parsed.file.dev_dependencies = <<>>

\* The ComposerFile of another parse of the same files, its maps iterated
\* in the given orders.
Reparsed(require_order, dev_order) ==
    parse_from_path(call.filepath, call.file, call.lock_file, require_order, dev_order).file

\* C22: every other parse of the same manifest text gives the same two
\* dependency sequences, element by element, and the same line index.
C22_ReparseIsIdentical ==
    ParsedSome =>
        \A require_order \in Orders(Decode(call.file.doc, REQUIRE)) :
            \A dev_order \in Orders(Decode(call.file.doc, REQUIRE_DEV)) :
                /\ Reparsed(require_order, dev_order).dependencies
                       = result.parsed.file.dependencies
                /\ Reparsed(require_order, dev_order).dev_dependencies
                       = result.parsed.file.dev_dependencies
                /\ Reparsed(require_order, dev_order).dependencies_by_line
                       = result.parsed.file.dependencies_by_line

(***************************************************************************)
(* Properties of parse_lock_file (LockSpec)                                *)
(***************************************************************************)

\* The call has returned a lock map.
LockedSome == result.tag = "Locked" /\ result.parsed.ok /\ result.parsed.lock.some

\* C23: parse_lock_file returns, with None or with a lock map, for a lock
\* file that is missing, that is not JSON, whose top level is no object,
\* whose packages value is no array, or that has a package without a name
\* or without a version.
C23_LockParseNeverAborts == result.tag = "Locked" => result.parsed.ok

\* The positions of the packages array that hold a package.
LockEntries == {i \in 1..Len(call.packages) : call.packages[i].shape = "entry"}

\* The last position at which the name occurs.
LastOccurrence(name) ==
    CHOOSE i \in LockEntries :
        /\ call.packages[i].name = name
        /\ \A j \in LockEntries : call.packages[j].name = name => j <= i

\* The version without the "v" it may start with.
StripLeadingV(version) ==
    IF Len(version) > 0 /\ Head(version) = "v" THEN Tail(version) ELSE version

\* C24: the version kept for a package is the version string of the lock
\* file without its quotes and without a leading "v", and otherwise
\* unchanged: a "v" elsewhere in the string stays.
C24_OnlyLeadingVStripped ==
    LockedSome =>
        \A i \in LockEntries :
            i = LastOccurrence(call.packages[i].name) =>
                result.parsed.lock.versions[call.packages[i].name].version
                    = StripLeadingV(call.packages[i].version)

\* C25: the lock map has one entry for each name of the packages array and
\* no other; the entry of a name is that of its last occurrence.
C25_LastOccurrenceWins ==
    LockedSome =>
        /\ DOMAIN result.parsed.lock.versions = {call.packages[i].name : i \in LockEntries}
        /\ \A i \in LockEntries :
               i = LastOccurrence(call.packages[i].name) =>
                   result.parsed.lock.versions[call.packages[i].name]
                       = [name |-> call.packages[i].name,
                          version |-> LockVersion(call.packages[i])]

\* A package listed twice with two versions: the map has the second.
C25_Witness ==
    /\ LockedSome
    /\ Len(call.packages) = 2
    /\ call.packages[1] = Entry(PkgA, <<"v", "2", ".", "1", ".", "0">>)
    /\ call.packages[2] = Entry(PkgA, V3("2", "2", "1"))
    /\ DOMAIN result.parsed.lock.versions = {PkgA}
    /\ result.parsed.lock.versions[PkgA].version = V3("2", "2", "1")

\* The end position of the range is not before its start position.
WellFormed(range) ==
    \/ range.start.line < range.end.line
    \/ /\ range.start.line = range.end.line
       /\ range.start.character <= range.end.character

\* The range reaches over the line.
Covers(range, line) == range.start.line <= line /\ line <= range.end.line

\* The lines of the dependencies of a stored manifest.
DependencyLines(file) == {file.dependencies[n].line : n \in 1..Len(file.dependencies)}

\* C33: every published diagnostic and every hover response carries a
\* well-formed range, whose end is not before its start, and which covers
\* the line of the dependency it is about.
C33_RangesAreWellFormed ==
    /\ published.any =>
           \A n \in 1..Len(published.diagnostics) :
               /\ WellFormed(published.diagnostics[n].range)
               /\ \E line \in DependencyLines(saves[published.by].composer_file) :
                      Covers(published.diagnostics[n].range, line)
    /\ (result.tag = "Answered" /\ call.kind = "hover" /\ result.answer.tag = "Some") =>
           /\ WellFormed(result.answer.range)
           /\ Covers(result.answer.range, call.line)

(***************************************************************************)
(* Properties of the answers of on_hover and goto_definition (HoverSpec)   *)
(***************************************************************************)

\* The request of the call has been answered.
Queried == result.tag = "Answered"

\* The dependency of the call's line, if the saved manifest has one there.
HoverHasName(c) ==
    /\ HoverSlot(c).present
    /\ c.line \in DOMAIN HoverSlot(c).data.dependencies_by_line

HoverName(c) == HoverSlot(c).data.dependencies_by_line[c.line]

\* The registry's releases of the call.
HoverVersions(c) == PackageVersions(HoverName(c), c.response.items)

\* The lock has an entry for the dependency.
HoverInstalled(c) ==
    /\ HoverSlot(c).data.lock.some
    /\ HoverName(c) \in DOMAIN HoverSlot(c).data.lock.versions

\* The releases the request is to describe: those whose version is the
\* lock's, if the lock has an entry and such a release exists, else the
\* first release.
ToDescribe(c) ==
    IF /\ HoverInstalled(c)
       /\ \E i \in 1..Len(HoverVersions(c)) :
              HoverVersions(c)[i].version =
                  Some(HoverSlot(c).data.lock.versions[HoverName(c)].version)
    THEN {HoverVersions(c)[i] : i \in
             {j \in 1..Len(HoverVersions(c)) :
                  HoverVersions(c)[j].version =
                      Some(HoverSlot(c).data.lock.versions[HoverName(c)].version)}}
    ELSE {HoverVersions(c)[1]}

\* The release an answer is about: the one selected, else the first.
Described(c, answer) ==
    IF answer.selected = NoPackageVersion THEN HoverVersions(c)[1] ELSE answer.selected

\* The answer of the other kind of request to the same call.
OtherAnswer(c) ==
    IF c.kind = "hover"
    THEN goto_definition(HoverSlot(c), c.line, HoverResponses(c), c.browser)
    ELSE on_hover(HoverSlot(c), c.line, HoverResponses(c))

\* C26: a hover and a goto-definition request alike are about the release
\* whose version is, string for string, the version the lock has for the
\* dependency, if the lock has an entry and the registry such a release, and
\* about the first release otherwise; the two kinds of request select the
\* same release for the same line and state.
C26_SameReleaseSelected ==
    (/\ Queried
     /\ HoverHasName(call)
     /\ PackageInfo(call.response) = "some"
     /\ result.answer.tag # "Panic"
     /\ OtherAnswer(call).tag # "Panic") =>
        /\ Described(call, result.answer) \in ToDescribe(call)
        /\ Described(call, result.answer) = Described(call, OtherAnswer(call))

\* The call is one of those that are to end in a logged "nothing
\* available": its line holds no dependency, the registry has no data for
\* the name, or the package has no usable release data.
NothingAvailable(c) ==
    /\ HoverSlot(c).present
    /\ \/ ~HoverHasName(c)
       \/ c.response.kind \in {"not_json", "not_object", "no_packages", "no_entry", "not_array"}
       \/ /\ c.response.kind = "releases"
          /\ \/ Len(c.response.items) = 0
             \/ c.response.items[1].shape \in {"bare", "malformed"}

\* C27: a hover or goto-definition request ends in a logged "nothing
\* available" and does not abort when the line has no known dependency,
\* the registry has no data for the name, or the package has no usable
\* release data (no release, or a first release without description,
\* homepage or URL).
C27_NothingAvailableIsLogged ==
    (Queried /\ NothingAvailable(call)) =>
        /\ result.answer.tag = "None"
        /\ result.answer.logged

(***************************************************************************)
(* Properties of on_code_action (ActionSpec)                               *)
(***************************************************************************)

Answered == result.tag = "Answered"

\* The 0-based line of the manifest declares a dependency.
HoldsDependency(doc, line) == line + 1 \in 1..Len(doc) /\ doc[line + 1].kind \in DepKinds

\* C29: a request for one line that declares a dependency, after a save, is
\* answered with the install command when the saved manifest has no lock,
\* else with the update command for the dependency of that line; any other
\* request is answered with an error and no command.
C29_CommandForTheLine ==
    Answered =>
        IF call.saved /\ call.start = call.end /\ HoldsDependency(call.file.doc, call.start)
        THEN /\ result.answer.ok
             /\ result.answer.commands =
                    IF call.lock_file.kind = "missing"
                    THEN <<Command("install", <<>>)>>
                    ELSE <<Command("update", <<call.file.doc[call.start + 1].name>>)>>
        ELSE result.answer = MethodNotFound

(***************************************************************************)
(* Properties of get_packages_info (BatchSpec)                             *)
(***************************************************************************)

Fetched == result.tag = "Fetched"

\* The answer is a list of releases, each with its version string.
Usable(answer) ==
    /\ answer.kind = "releases"
    /\ \A i \in 1..Len(answer.items) : answer.items[i].shape = "release"

\* The requests of the batch whose lookup fails or gives nothing usable.
FailedRequests == {k \in 1..Len(call.packages) : ~Usable(call.reg[call.packages[k].name])}

\* The update of a request whose lookup succeeds.
RequestUpdate(item) ==
    check_for_package_update(Lookup(item.name, call.reg[item.name]).package,
                             Remove(item.version, Q),
                             composer_lock_version(call.lock, item.name))

\* The diagnostics of the requests that succeed and have an update.
SucceededDiagnostics ==
    LET updated == SelectSeq(call.packages,
                             LAMBDA item : /\ Usable(call.reg[item.name])
                                           /\ RequestUpdate(item).tag = "Some")
    IN  [n \in 1..Len(updated) |-> Diagnostic(updated[n], RequestUpdate(updated[n]).ver)]

\* C13: when one lookup of a batch fails the batch completes all the same,
\* the other dependencies get the diagnostics they get when every lookup
\* succeeds, and the failing one gets none.
C13_OneFailureIsContained ==
    (Fetched /\ Cardinality(FailedRequests) = 1) =>
        /\ result.update_data.ok
        /\ result.diagnostics.ok
        /\ result.diagnostics.diagnostics = SucceededDiagnostics

\* C14: every key of the returned map is the name of a requested
\* dependency whose lookup succeeded with usable data.
C14_KeysAreSucceededRequests ==
    (Fetched /\ result.update_data.ok) =>
        \A key \in DOMAIN result.update_data.hashmap :
            \E k \in 1..Len(call.packages) :
                /\ call.packages[k].name = key
                /\ k \notin FailedRequests

\* C15: the returned map and the diagnostics derived from it are the same
\* for every order in which the lookups of the batch settle.
C15_SettlingOrderIsIrrelevant ==
    Fetched =>
        \A completed \in SettlingOrders(Len(call.packages)) :
            result = BatchOutcome(call.packages, call.lock,
                                  get_packages_info(call.packages, call.reg, completed))

\* Three lookups that settle last to first, the first of them an Err; the
\* two others have an entry in the map and a diagnostic.
C15_Witness ==
    /\ Fetched
    /\ Len(call.packages) = 3
    /\ call.completed = [i \in 1..3 |-> 4 - i]
    /\ call.reg[call.packages[1].name] = Answer("send_error")
    /\ result.update_data.ok
    /\ Cardinality(DOMAIN result.update_data.hashmap) = 2
    /\ Len(result.diagnostics.diagnostics) = 2

====
